---- MODULE Spec2Model ----
(***************************************************************************)
(* WinAsMuchAsYouCanEnv (textarena/envs/WinAsMuchAsYouCan/env.py): the     *)
(* four-player X/Y game with talk phases in rounds 5, 8 and 10.            *)
(*                                                                         *)
(* Texts (actions, messages) are sequences of tokens: a token is either a  *)
(* word or a bracketed marker.  The regular expressions of __init__ are    *)
(* modelled on tokens: case and inner white space are not represented.     *)
(*                                                                         *)
(* The append-only logs of the environment are represented by what the     *)
(* most recent step appended to them: step_obs for state.observations and  *)
(* talk_messages_new for game_state["talk_messages"].  round_history is    *)
(* kept whole because _check_game_end reads its length.                    *)
(***************************************************************************)
EXTENDS Integers, Sequences, FiniteSets, TLC

VARIABLES
    current_round,      \* game_state["current_round"]
    current_phase,      \* game_state["current_phase"]: "act" or "talk"
    player_choices,     \* game_state["player_choices"]: player -> "X" | "Y"
    player_scores,      \* game_state["player_scores"]
    round_history,      \* game_state["round_history"]
    talk_round,         \* game_state["talk_round"]
    players_passed,     \* game_state["players_passed"]
    talk_messages_new,  \* entries the last step appended to talk_messages
    current_player_id,  \* state.current_player_id
    done,               \* state.done
    rewards,            \* state.rewards
    winners,            \* player_ids of the last state.set_winners call
    step_obs,           \* observations the last step added, in order
    last,               \* the last step call: actor, action, success, reason
    end_game_calls,     \* number of _end_game invocations so far
    strikes,            \* the validity ledger: invalid moves charged per player
    vendor,             \* the VendorNegotiationEnv instance, as one record
    vn_last,            \* the last step call of the VendorNegotiationEnv
    board_strs          \* what get_board_str returned since that step call

vars == <<current_round, current_phase, player_choices, player_scores,
          round_history, talk_round, players_passed, talk_messages_new,
          current_player_id, done, rewards, winners, step_obs, last,
          end_game_calls, strikes, vendor, vn_last, board_strs>>

(***************************************************************************)
(* Program constants                                                       *)
(***************************************************************************)
num_players == 4
max_talk_rounds == 40
final_round == 10
GAME_ID == -1
\* WinAsMuchAsYouCanEnv(error_allowance = 2)
error_allowance == 2
Players == 0 .. (num_players - 1)
\* variant: round 10 is not a communication round
communication_rounds_no10 == {5, 8}
communication_rounds == {5, 8, 10}
round_multipliers ==
    [r \in 1 .. final_round |->
        CASE r = 5 -> 3 [] r = 8 -> 5 [] r = 10 -> 10 [] OTHER -> 1]

(***************************************************************************)
(* Bounds of the exploration                                               *)
(***************************************************************************)
\* the rounds in which the players answer [Choose Y] as well as [Choose X]
YRounds == {final_round}
\* whisper targets written by the players range over 0 .. MaxTarget
MaxTarget == 4
\* the reference driver and the driver that sets the acting player submit an
\* action that is rejected only while fewer than MaxFaults have been charged
\* in the game
MaxFaults == 1
\* the driver that sets the acting player itself submits a [Broadcast] only
\* while fewer than MaxChat talk actions of the phase have been accepted
MaxChat == 6

(***************************************************************************)
(* Texts                                                                   *)
(***************************************************************************)
W(w) == [k |-> "word", v |-> w]
M(m) == [k |-> m, v |-> ""]
Wh(t) == [k |-> "whisper", v |-> t]

\* \d+ : the strings that are decimal numerals
IsDigits(v) == \E n \in 0 .. MaxTarget : ToString(n) = v
\* int(target_str)
int(v) == CHOOSE n \in 0 .. MaxTarget : ToString(n) = v

\* the least position of a set of positions, 0 when there is none
FirstIndex(hits) ==
    IF hits = {} THEN 0
    ELSE CHOOSE i \in hits : \A j \in hits : i <= j

Rest(text, i) == SubSeq(text, i + 1, Len(text))

IsBroadcastMarker(t) == t.k = "broadcast"
IsWhisperMarker(t) == t.k = "whisper" /\ IsDigits(t.v)
IsPassMarker(t) == t.k = "pass"
IsChooseXMarker(t) == t.k = "chooseX"
IsChooseYMarker(t) == t.k = "chooseY"

\* pattern.search(action): index of the leftmost match, 0 for no match
broadcast_pattern(action) ==
    FirstIndex({i \in 1 .. Len(action) : IsBroadcastMarker(action[i])})
whisper_pattern(action) ==
    FirstIndex({i \in 1 .. Len(action) : IsWhisperMarker(action[i])})
pass_pattern(action) ==
    FirstIndex({i \in 1 .. Len(action) : IsPassMarker(action[i])})
choose_x_pattern(action) ==
    FirstIndex({i \in 1 .. Len(action) : IsChooseXMarker(action[i])})
choose_y_pattern(action) ==
    FirstIndex({i \in 1 .. Len(action) : IsChooseYMarker(action[i])})

\* text appears in msg as a contiguous run of tokens
Contains(msg, text) ==
    \E i \in 0 .. (Len(msg) - Len(text)) :
        SubSeq(msg, i + 1, i + Len(text)) = text

Num(n) == W(ToString(n))
Signed(n) == W(IF n >= 0 THEN "+" \o ToString(n) ELSE ToString(n))

(***************************************************************************)
(* The environment's state as one record, so that the methods below read   *)
(* as functions from state to state.                                       *)
(***************************************************************************)
State ==
    [round |-> current_round, phase |-> current_phase,
     choices |-> player_choices, scores |-> player_scores,
     history |-> round_history, talk_round |-> talk_round,
     passed |-> players_passed, msgs |-> <<>>,
     cur |-> current_player_id, done |-> done, rewards |-> rewards,
     winners |-> winners, obs |-> <<>>, routed |-> <<>>, reason |-> "",
     egc |-> end_game_calls, strikes |-> strikes]

NoChoices == [p \in {} |-> "X"]

\* state.add_observation: to_id = -1 addresses every player
add_observation(s, from_id, to_id, message, observation_type) ==
    LET Ob(p) == [to |-> p, from |-> from_id, msg |-> message,
                  type |-> observation_type]
    IN  IF to_id = -1
        THEN [s EXCEPT !.obs = @ \o [i \in 1 .. num_players |-> Ob(i - 1)]]
        ELSE [s EXCEPT !.obs = Append(@, Ob(to_id))]

\* state.set_invalid_move(reason): the reason is reported for this step and
\* the ledger charges the acting player one strike
set_invalid_move(s, why) ==
    [s EXCEPT !.reason = why, !.strikes[s.cur] = @ + 1]

\* the ledger's is_eligible(player): the strikes do not exceed the allowance
is_eligible(ledger, player) == ledger[player] <= error_allowance

\* state.set_winners(player_ids, reason)
set_winners(s, player_ids) == [s EXCEPT !.winners = player_ids]

Announce(s, message) ==
    add_observation(s, GAME_ID, -1, message, "GAME_ACTION_DESCRIPTION")

(***************************************************************************)
(* The three kinds of observation of an accepted whisper: the body to the  *)
(* receiver, a confirmation to the sender, a notice to everybody else      *)
(***************************************************************************)
\* variant: the notice also goes to the receiver
route_whisper_notify_receiver(s, player_id, target_id, message) ==
    LET s1 == add_observation(s, GAME_ID, target_id,
                  <<W("Player"), Num(player_id), W("(Private):")>> \o message,
                  "GAME_ACTION_DESCRIPTION")
        s2 == add_observation(s1, GAME_ID, player_id,
                  <<W("You sent private message to Player"),
                    Num(target_id), W(":")>> \o message,
                  "GAME_ACTION_DESCRIPTION")
        RECURSIVE Notify(_, _)
        Notify(st, pid) ==
            IF pid >= 4 THEN st
            ELSE Notify(IF pid # player_id
                        THEN add_observation(st, GAME_ID, pid,
                               <<W("A private message was sent between two players")>>,
                               "GAME_ACTION_DESCRIPTION")
                        ELSE st,
                        pid + 1)
    IN Notify(s2, 0)
route_whisper(s, player_id, target_id, message) ==
    LET s1 == add_observation(s, GAME_ID, target_id,
                  <<W("Player"), Num(player_id), W("(Private):")>> \o message,
                  "GAME_ACTION_DESCRIPTION")
        s2 == add_observation(s1, GAME_ID, player_id,
                  <<W("You sent private message to Player"),
                    Num(target_id), W(":")>> \o message,
                  "GAME_ACTION_DESCRIPTION")
        RECURSIVE Notify(_, _)
        Notify(st, pid) ==
            IF pid >= 4 THEN st
            ELSE Notify(IF pid # player_id /\ pid # target_id
                        THEN add_observation(st, GAME_ID, pid,
                               <<W("A private message was sent between two players")>>,
                               "GAME_ACTION_DESCRIPTION")
                        ELSE st,
                        pid + 1)
    IN Notify(s2, 0)

(***************************************************************************)
(* _process_talk_phase: returns <<success, state>>                         *)
(***************************************************************************)
\* target_id == player_id
\* variant: a whisper to oneself is treated like any other whisper
is_self_target_never(target_id, player_id) == FALSE
is_self_target(target_id, player_id) == target_id = player_id

_process_talk_phase(s, player_id, action) ==
    LET b == broadcast_pattern(action)
        w == whisper_pattern(action)
        p == pass_pattern(action)
    IN
    IF player_id \in s.passed
    THEN <<FALSE, set_invalid_move(s, "You have already passed")>>
    ELSE IF b # 0 THEN
        LET message == Rest(action, b) IN
        IF message = <<>>
        THEN <<FALSE, set_invalid_move(s, "Broadcast message cannot be empty")>>
        ELSE
          LET s1 == Announce(s, <<W("Player"), Num(player_id),
                                  W("(Broadcast):")>> \o message)
              s2 == [s1 EXCEPT !.msgs = Append(@,
                        [round |-> s.round, talk_round |-> s.talk_round,
                         from |-> player_id, to |-> "all",
                         message |-> message, type |-> "broadcast"])]
          IN <<TRUE, s2>>
    ELSE IF w # 0 THEN
        LET target_id == int(action[w].v)
            message == Rest(action, w)
        IN
        IF target_id < 0 \/ target_id >= 4
        THEN <<FALSE, set_invalid_move(s, "Target player must be 0, 1, 2, or 3")>>
        ELSE IF is_self_target(target_id, player_id)
        THEN <<FALSE, set_invalid_move(s, "Cannot whisper to yourself")>>
        ELSE IF message = <<>>
        THEN <<FALSE, set_invalid_move(s, "Whisper message cannot be empty")>>
        ELSE
          LET s3 == route_whisper(s, player_id, target_id, message)
              s4 == [s3 EXCEPT !.msgs = Append(@,
                        [round |-> s.round, talk_round |-> s.talk_round,
                         from |-> player_id, to |-> ToString(target_id),
                         message |-> message, type |-> "whisper",
                         hidden |-> TRUE])]
          IN <<TRUE, s4>>
    ELSE IF p # 0 THEN
        LET s1 == [s EXCEPT !.passed = @ \cup {player_id}]
            s2 == Announce(s1, <<W("Player"), Num(player_id), W("passed")>>)
        IN <<TRUE, s2>>
    ELSE <<FALSE, set_invalid_move(s,
              "Use [Broadcast] message, [Whisper to X] message, or [Pass]")>>

(***************************************************************************)
(* _process_act_phase: returns <<success, state>>                          *)
(***************************************************************************)
\* player_id in game_state["player_choices"]
\* variant: the check for an earlier choice is missing
already_chose_never(s, player_id) == FALSE
\* variant: only the lowest-indexed player without a choice may choose
already_chose_or_not_next(s, player_id) ==
    \/ player_id \in DOMAIN s.choices
    \/ \E q \in Players : q < player_id /\ q \notin DOMAIN s.choices
already_chose(s, player_id) == player_id \in DOMAIN s.choices

_process_act_phase(s, player_id, action) ==
    LET Record(c) ==
            Announce([s EXCEPT !.choices =
                         [q \in DOMAIN s.choices \cup {player_id} |->
                             IF q = player_id THEN c ELSE s.choices[q]]],
                     <<W("Player"), Num(player_id), W("made their choice")>>)
    IN
    IF already_chose(s, player_id)
    THEN <<FALSE, set_invalid_move(s,
              "You have already made your choice this round")>>
    ELSE IF choose_x_pattern(action) # 0 THEN <<TRUE, Record("X")>>
    ELSE IF choose_y_pattern(action) # 0 THEN <<TRUE, Record("Y")>>
    ELSE <<FALSE, set_invalid_move(s, "Use [Choose X] or [Choose Y]")>>

_process_action(s, player_id, action) ==
    IF s.phase = "talk" THEN _process_talk_phase(s, player_id, action)
    ELSE IF s.phase = "act" THEN _process_act_phase(s, player_id, action)
    ELSE <<FALSE, set_invalid_move(s, "Unknown game phase")>>

None == 0 - 1

(***************************************************************************)
(* Turn selectors                                                          *)
(***************************************************************************)
\* variant: the scan starts at the current player, range(0, 4)
_get_next_talk_player_from_self(s) ==
    IF s.talk_round >= max_talk_rounds THEN None
    ELSE IF \E i \in 0 .. 3 : ((s.cur + i) % 4) \notin s.passed
    THEN LET i == CHOOSE i \in 0 .. 3 :
                    /\ ((s.cur + i) % 4) \notin s.passed
                    /\ \A j \in 0 .. (i - 1) : ((s.cur + j) % 4) \in s.passed
         IN (s.cur + i) % 4
    ELSE None
\* variant: players who passed are not skipped
_get_next_talk_player_plain(s) ==
    IF s.talk_round >= max_talk_rounds THEN None
    ELSE (s.cur + 1) % 4
_get_next_talk_player(s) ==
    IF s.talk_round >= max_talk_rounds THEN None
    ELSE IF \E i \in 1 .. 4 : ((s.cur + i) % 4) \notin s.passed
    THEN LET i == CHOOSE i \in 1 .. 4 :
                    /\ ((s.cur + i) % 4) \notin s.passed
                    /\ \A j \in 1 .. (i - 1) : ((s.cur + j) % 4) \in s.passed
         IN (s.cur + i) % 4
    ELSE None

\* variant: the scan runs from the highest index down
_get_next_player_needing_choice_last(s) ==
    IF \E q \in Players : q \notin DOMAIN s.choices
    THEN CHOOSE q \in Players :
            /\ q \notin DOMAIN s.choices
            /\ \A r \in Players : r > q => r \in DOMAIN s.choices
    ELSE None
_get_next_player_needing_choice(s) ==
    IF \E q \in Players : q \notin DOMAIN s.choices
    THEN CHOOSE q \in Players :
            /\ q \notin DOMAIN s.choices
            /\ \A r \in Players : r < q => r \in DOMAIN s.choices
    ELSE None

(***************************************************************************)
(* _check_if_phase_should_end: returns <<phase_ended, state>>; in a talk   *)
(* phase it first counts the accepted action                               *)
(***************************************************************************)
\* variant: an act phase ends with the third choice
_check_if_phase_should_end_early(s, player_id, action) ==
    IF s.phase = "talk" THEN
        LET s1 == [s EXCEPT !.talk_round = @ + 1] IN
        IF s1.talk_round >= max_talk_rounds THEN <<TRUE, s1>>
        ELSE IF Cardinality(s1.passed) >= 4 THEN <<TRUE, s1>>
        ELSE <<FALSE, s1>>
    ELSE IF s.phase = "act" THEN
        <<Cardinality(DOMAIN s.choices) >= 3, s>>
    ELSE <<FALSE, s>>
\* variant: talk_round > max_rounds instead of >=
_check_if_phase_should_end_late(s, player_id, action) ==
    IF s.phase = "talk" THEN
        LET s1 == [s EXCEPT !.talk_round = @ + 1] IN
        IF s1.talk_round > max_talk_rounds THEN <<TRUE, s1>>
        ELSE IF Cardinality(s1.passed) >= 4 THEN <<TRUE, s1>>
        ELSE <<FALSE, s1>>
    ELSE IF s.phase = "act" THEN
        <<Cardinality(DOMAIN s.choices) >= 4, s>>
    ELSE <<FALSE, s>>
_check_if_phase_should_end(s, player_id, action) ==
    IF s.phase = "talk" THEN
        LET s1 == [s EXCEPT !.talk_round = @ + 1] IN
        IF s1.talk_round >= max_talk_rounds THEN <<TRUE, s1>>
        ELSE IF Cardinality(s1.passed) >= 4 THEN <<TRUE, s1>>
        ELSE <<FALSE, s1>>
    ELSE IF s.phase = "act" THEN
        <<Cardinality(DOMAIN s.choices) >= 4, s>>
    ELSE <<FALSE, s>>

(***************************************************************************)
(* _score_round                                                            *)
(***************************************************************************)
\* variant: four X's cost nothing
base_points_no_penalty(x_count, y_count) ==
    IF x_count = 1 /\ y_count = 3 THEN [X |-> 3, Y |-> -1]
    ELSE IF x_count = 2 /\ y_count = 2 THEN [X |-> 2, Y |-> -2]
    ELSE IF x_count = 3 /\ y_count = 1 THEN [X |-> 1, Y |-> -3]
    ELSE IF x_count = 4 THEN [X |-> 0, Y |-> 0]
    ELSE IF y_count = 4 THEN [X |-> 0, Y |-> 1]
    ELSE [X |-> 0, Y |-> 0]
base_points(x_count, y_count) ==
    IF x_count = 1 /\ y_count = 3 THEN [X |-> 3, Y |-> -1]
    ELSE IF x_count = 2 /\ y_count = 2 THEN [X |-> 2, Y |-> -2]
    ELSE IF x_count = 3 /\ y_count = 1 THEN [X |-> 1, Y |-> -3]
    ELSE IF x_count = 4 THEN [X |-> -1, Y |-> 0]
    ELSE IF y_count = 4 THEN [X |-> 0, Y |-> 1]
    ELSE [X |-> 0, Y |-> 0]

\* the players of a dict in the order the model iterates over it
RECURSIVE Keys(_, _)
Keys(d, from) ==
    IF from >= num_players THEN <<>>
    ELSE (IF from \in DOMAIN d THEN <<from>> ELSE <<>>) \o Keys(d, from + 1)

\* variant: the scores grow by the base points, the multiplier forgotten
_score_round_unscaled(s) ==
    LET choices == s.choices
        multiplier == round_multipliers[s.round]
        x_count == Cardinality({q \in DOMAIN choices : choices[q] = "X"})
        y_count == 4 - x_count
        base == base_points(x_count, y_count)
        points_earned == [q \in DOMAIN choices |-> base[choices[q]] * multiplier]
        scores == [q \in Players |->
                     IF q \in DOMAIN choices THEN s.scores[q] + base[choices[q]]
                     ELSE s.scores[q]]
        round_results == [q \in DOMAIN choices |->
                            [choice |-> choices[q], points |-> points_earned[q]]]
        entry == [round |-> s.round, choices |-> choices, x_count |-> x_count,
                  y_count |-> y_count, base_points |-> base,
                  multiplier |-> multiplier, results |-> round_results]
        order == Keys(choices, 0)
        RECURSIVE ChoicesStr(_)
        ChoicesStr(i) ==
            IF i > Len(order) THEN <<>>
            ELSE <<W("Player"), Num(order[i]), W(":"), W(choices[order[i]])>>
                    \o ChoicesStr(i + 1)
        s1 == [s EXCEPT !.scores = scores, !.history = Append(@, entry)]
        s2 == Announce(s1, <<W("Round"), Num(s.round), W("Results:")>>
                             \o ChoicesStr(1)
                             \o <<Num(x_count), W("X's"), Num(y_count), W("Y's")>>)
        RECURSIVE Scoring(_, _)
        Scoring(st, i) ==
            IF i > Len(order) THEN st
            ELSE Scoring(Announce(st, <<W("Player"), Num(order[i]), W(":"),
                                        Signed(points_earned[order[i]]),
                                        W("points (Total:"),
                                        Num(scores[order[i]])>>),
                         i + 1)
    IN Scoring(s2, 1)
_score_round(s) ==
    LET choices == s.choices
        multiplier == round_multipliers[s.round]
        x_count == Cardinality({q \in DOMAIN choices : choices[q] = "X"})
        y_count == 4 - x_count
        base == base_points(x_count, y_count)
        points_earned == [q \in DOMAIN choices |-> base[choices[q]] * multiplier]
        scores == [q \in Players |->
                     IF q \in DOMAIN choices THEN s.scores[q] + points_earned[q]
                     ELSE s.scores[q]]
        round_results == [q \in DOMAIN choices |->
                            [choice |-> choices[q], points |-> points_earned[q]]]
        entry == [round |-> s.round, choices |-> choices, x_count |-> x_count,
                  y_count |-> y_count, base_points |-> base,
                  multiplier |-> multiplier, results |-> round_results]
        order == Keys(choices, 0)
        RECURSIVE ChoicesStr(_)
        ChoicesStr(i) ==
            IF i > Len(order) THEN <<>>
            ELSE <<W("Player"), Num(order[i]), W(":"), W(choices[order[i]])>>
                    \o ChoicesStr(i + 1)
        s1 == [s EXCEPT !.scores = scores, !.history = Append(@, entry)]
        s2 == Announce(s1, <<W("Round"), Num(s.round), W("Results:")>>
                             \o ChoicesStr(1)
                             \o <<Num(x_count), W("X's"), Num(y_count), W("Y's")>>)
        RECURSIVE Scoring(_, _)
        Scoring(st, i) ==
            IF i > Len(order) THEN st
            ELSE Scoring(Announce(st, <<W("Player"), Num(order[i]), W(":"),
                                        Signed(points_earned[order[i]]),
                                        W("points (Total:"),
                                        Num(scores[order[i]])>>),
                         i + 1)
    IN Scoring(s2, 1)

(***************************************************************************)
(* _end_game                                                               *)
(***************************************************************************)
Max(S) == CHOOSE m \in S : \A n \in S : n <= m

\* variant: winners are rewarded whatever the maximum score is
_end_game_no_draw(s) ==
    LET final_scores == s.scores
        max_score == Max({final_scores[q] : q \in Players})
        winner_set == {q \in Players : final_scores[q] = max_score}
        winner_list == Keys([q \in winner_set |-> TRUE], 0)
        s1 == Announce(s, <<W("GAME OVER - Final Scores:")>>)
        RECURSIVE Finals(_, _)
        Finals(st, q) ==
            IF q >= 4 THEN st
            ELSE Finals(Announce(st, <<W("Player"), Num(q), W(":"),
                                       Num(final_scores[q]), W("points")>>),
                        q + 1)
        s2 == Finals(s1, 0)
        s3 == set_winners(s2, winner_list)
        new_rewards == [q \in Players |-> IF q \in winner_set THEN 1 ELSE -1]
    IN [s3 EXCEPT !.rewards = new_rewards, !.done = TRUE, !.egc = @ + 1]
_end_game(s) ==
    LET final_scores == s.scores
        max_score == Max({final_scores[q] : q \in Players})
        winner_set == {q \in Players : final_scores[q] = max_score}
        winner_list == Keys([q \in winner_set |-> TRUE], 0)
        s1 == Announce(s, <<W("GAME OVER - Final Scores:")>>)
        RECURSIVE Finals(_, _)
        Finals(st, q) ==
            IF q >= 4 THEN st
            ELSE Finals(Announce(st, <<W("Player"), Num(q), W(":"),
                                       Num(final_scores[q]), W("points")>>),
                        q + 1)
        s2 == Finals(s1, 0)
        s3 == set_winners(s2, winner_list)
        new_rewards ==
            IF max_score > 0
            THEN [q \in Players |-> IF q \in winner_set THEN 1 ELSE -1]
            ELSE [q \in Players |-> 0]
    IN [s3 EXCEPT !.rewards = new_rewards, !.done = TRUE, !.egc = @ + 1]

(***************************************************************************)
(* _check_phase_transition and _check_game_end                             *)
(***************************************************************************)
\* variant: the talk -> act transition keeps the recorded choices
_check_phase_transition_keep_choices(s) ==
    LET current_round_ == s.round IN
    IF s.phase = "talk" THEN
        Announce([s EXCEPT !.phase = "act", !.cur = 0],
                 <<W("Talk phase ended. Now choosing X or Y for Round"),
                   Num(current_round_)>>)
    ELSE IF s.phase = "act" THEN
        LET s1 == _score_round(s) IN
        IF current_round_ >= final_round THEN _end_game(s1)
        ELSE
          LET next_round == current_round_ + 1
              s2 == [s1 EXCEPT !.round = next_round]
          IN IF next_round \in communication_rounds
             THEN Announce([s2 EXCEPT !.phase = "talk", !.talk_round = 0,
                                      !.passed = {}, !.cur = 0],
                           <<W("Round"), Num(next_round),
                             W("- Talk phase begins")>>)
             ELSE Announce([s2 EXCEPT !.phase = "act", !.choices = NoChoices,
                                      !.cur = 0],
                           <<W("Round"), Num(next_round),
                             W("- Choose X or Y")>>)
    ELSE s
_check_phase_transition(s) ==
    LET current_round_ == s.round IN
    IF s.phase = "talk" THEN
        Announce([s EXCEPT !.phase = "act", !.choices = NoChoices, !.cur = 0],
                 <<W("Talk phase ended. Now choosing X or Y for Round"),
                   Num(current_round_)>>)
    ELSE IF s.phase = "act" THEN
        LET s1 == _score_round(s) IN
        IF current_round_ >= final_round THEN _end_game(s1)
        ELSE
          LET next_round == current_round_ + 1
              s2 == [s1 EXCEPT !.round = next_round]
          IN IF next_round \in communication_rounds
             THEN Announce([s2 EXCEPT !.phase = "talk", !.talk_round = 0,
                                      !.passed = {}, !.cur = 0],
                           <<W("Round"), Num(next_round),
                             W("- Talk phase begins")>>)
             ELSE Announce([s2 EXCEPT !.phase = "act", !.choices = NoChoices,
                                      !.cur = 0],
                           <<W("Round"), Num(next_round),
                             W("- Choose X or Y")>>)
    ELSE s

_check_game_end(s) ==
    IF s.round >= final_round /\ s.phase = "act" /\ Len(s.history) >= 10
    THEN _end_game(s)
    ELSE s

(***************************************************************************)
(* step(action), called with current_player_id = the acting player         *)
(***************************************************************************)
\* the raw action is logged to everybody, a whisper to its sender only
\* variant: every raw action is logged to everybody
log_action_public(s, player, action) ==
    add_observation(s, player, -1, action, "PLAYER_ACTION")
log_action(s, player, action) ==
    IF whisper_pattern(action) # 0
    THEN add_observation(s, player, player, action, "PLAYER_ACTION")
    ELSE add_observation(s, player, -1, action, "PLAYER_ACTION")

\* the turn advances only after a valid action that leaves the game on;
\* state.step(rotate_player=False) leaves the player in place
\* variant: the turn advances whether or not the action was valid
advance_turn_always(success, s5) ==
    IF ~s5.done
    THEN IF s5.phase = "talk"
         THEN IF s5.talk_round > 0
              THEN LET next_talker == _get_next_talk_player(s5)
                   IN IF next_talker # None
                      THEN [s5 EXCEPT !.cur = next_talker] ELSE s5
              ELSE s5
         ELSE IF s5.phase = "act"
         THEN LET next_chooser == _get_next_player_needing_choice(s5)
              IN IF next_chooser # None
                 THEN [s5 EXCEPT !.cur = next_chooser] ELSE s5
         ELSE s5
    ELSE s5
advance_turn(success, s5) ==
    IF success /\ ~s5.done
    THEN IF s5.phase = "talk"
         THEN IF s5.talk_round > 0
              THEN LET next_talker == _get_next_talk_player(s5)
                   IN IF next_talker # None
                      THEN [s5 EXCEPT !.cur = next_talker] ELSE s5
              ELSE s5
         ELSE IF s5.phase = "act"
         THEN LET next_chooser == _get_next_player_needing_choice(s5)
              IN IF next_chooser # None
                 THEN [s5 EXCEPT !.cur = next_chooser] ELSE s5
         ELSE s5
    ELSE s5

step(s0, action) ==
    LET Transition(pe) ==
            IF pe[1] THEN _check_phase_transition(pe[2]) ELSE pe[2]
        Checks(success, s2, player) ==
            IF success
            THEN _check_game_end(
                     Transition(_check_if_phase_should_end(s2, player, action)))
            ELSE s2
        \* routed: the observations _process_action added
        Routed(s, n) == [s EXCEPT !.routed = SubSeq(s.obs, n + 1, Len(s.obs))]
        Processed(pr, n, player) ==
            <<pr[1],
              advance_turn(pr[1], Checks(pr[1], Routed(pr[2], n), player))>>
        Logged(s1, player) ==
            Processed(_process_action(s1, player, action), Len(s1.obs), player)
    IN Logged(log_action(s0, s0.cur, action), s0.cur)

(***************************************************************************)
(* VendorNegotiationEnv (textarena/envs/VendorNegotiation/env.py): player  *)
(* 0, the brand specialist, and player 1, the vendor, negotiate discount   *)
(* rates.  The environment is one record: the env's own attributes, the    *)
(* fields of its TwoPlayerState, and game_state["current_proposal"], the   *)
(* only game_state entry that is not the same object as the attribute.     *)
(***************************************************************************)
\* VendorNegotiationEnv(num_products = 2, max_rounds = 4, error_allowance = 2)
num_products == 2
max_rounds == 4
VendorPlayers == {0, 1}
Products == 1 .. num_products
allowed_discounts == {0, 15, 20, 30}

\* "n%" in an action
Pct(n) == [k |-> "pct", v |-> ToString(n)]
IsPct(t) == t.k = "pct"
\* the discounts the players write
Written == allowed_discounts \cup {10}
pct_int(v) == CHOOSE n \in Written : ToString(n) = v

\* white space in an action, and str.strip(): the text without the white
\* space at its two ends
Sp == [k |-> "space", v |-> ""]
strip(text) ==
    LET inked == {i \in 1 .. Len(text) : text[i].k # "space"}
    IN IF inked = {} THEN <<>>
       ELSE SubSeq(text, CHOOSE i \in inked : \A j \in inked : i <= j,
                         CHOOSE i \in inked : \A j \in inked : j <= i)

\* "[Propose]" in action, "[Accept]" in action, "[Reject]" in action
has_propose(action) == \E i \in 1 .. Len(action) : action[i].k = "propose"
has_accept(action) == \E i \in 1 .. Len(action) : action[i].k = "accept"
has_reject(action) == \E i \in 1 .. Len(action) : action[i].k = "reject"

\* action.split(marker): the parts before and after the first marker
Part0(action, kind) ==
    SubSeq(action, 1,
           FirstIndex({i \in 1 .. Len(action) : action[i].k = kind}) - 1)
Part1(action, kind) ==
    LET i == FirstIndex({i \in 1 .. Len(action) : action[i].k = kind})
        j == FirstIndex({j \in (i + 1) .. Len(action) : action[j].k = kind})
    IN SubSeq(action, i + 1, IF j = 0 THEN Len(action) ELSE j - 1)

\* discounts = None; proposer = None
NoDiscounts == <<>>
NoProposal == [discounts |-> NoDiscounts, proposer |-> None]

\* state.add_observation of the two-player state
vn_add_observation(v, from_id, to_id, message, observation_type) ==
    LET Ob(p) == [to |-> p, from |-> from_id, msg |-> message,
                  type |-> observation_type]
    IN  IF to_id = -1
        THEN [v EXCEPT !.obs = @ \o <<Ob(0), Ob(1)>>]
        ELSE [v EXCEPT !.obs = Append(@, Ob(to_id))]

\* state.set_invalid_move(reason)
vn_set_invalid_move(v, why) ==
    [v EXCEPT !.reason = why, !.strikes[v.current_player_id] = @ + 1]

\* _extract_proposal_discounts: product -> discount, NoDiscounts for None
_extract_proposal_discounts(action) ==
    IF ~has_propose(action) THEN NoDiscounts
    ELSE LET positional_matches == SelectSeq(Part1(action, "propose"), IsPct)
         IN IF positional_matches = <<>> THEN NoDiscounts
            ELSE IF Len(positional_matches) # num_products THEN NoDiscounts
            ELSE [i \in Products |-> pct_int(positional_matches[i].v)]

\* _is_valid_proposal: <<valid, state>>
\* variant: a discount that is not allowed is refused without a reason
_is_valid_proposal_silent(v, action) ==
    LET Verdict(discounts) ==
            IF discounts = NoDiscounts
            THEN <<FALSE, vn_set_invalid_move(v, "Invalid proposal format")>>
            ELSE IF \E i \in Products : discounts[i] \notin allowed_discounts
            THEN <<FALSE, v>>
            ELSE <<TRUE, v>>
    IN Verdict(_extract_proposal_discounts(action))
_is_valid_proposal(v, action) ==
    LET Verdict(discounts) ==
            IF discounts = NoDiscounts
            THEN <<FALSE, vn_set_invalid_move(v, "Invalid proposal format")>>
            ELSE IF \E i \in Products : discounts[i] \notin allowed_discounts
            THEN <<FALSE, vn_set_invalid_move(v, "Invalid discount")>>
            ELSE <<TRUE, v>>
    IN Verdict(_extract_proposal_discounts(action))

\* self.current_proposal['proposer'] == self.state.current_player_id
\* variant: the proposer of the standing proposal is not looked at
own_proposal_never(v) == FALSE
own_proposal(v) == v.current_proposal.proposer = v.current_player_id

\* _is_valid_action: <<valid, state>>
\* variant: free text is an invalid move
_is_valid_action_no_talk(v, action) ==
    LET action_count == (IF has_propose(action) THEN 1 ELSE 0)
                         + (IF has_accept(action) THEN 1 ELSE 0)
                         + (IF has_reject(action) THEN 1 ELSE 0)
    IN
    IF action_count = 0
    THEN <<FALSE, vn_set_invalid_move(v, "No action detected")>>
    ELSE IF action_count > 1
    THEN <<FALSE, vn_set_invalid_move(v, "Multiple actions detected")>>
    ELSE IF has_propose(action) THEN _is_valid_proposal(v, action)
    ELSE IF v.current_proposal.discounts = NoDiscounts
    THEN <<FALSE, vn_set_invalid_move(v,
              IF has_accept(action) THEN "No current proposal to accept"
              ELSE "No current proposal to reject")>>
    ELSE IF own_proposal(v)
    THEN <<FALSE, vn_set_invalid_move(v,
              IF has_accept(action) THEN "You cannot accept your own proposal"
              ELSE "You cannot reject your own proposal")>>
    ELSE <<TRUE, v>>
_is_valid_action(v, action) ==
    LET action_count == (IF has_propose(action) THEN 1 ELSE 0)
                         + (IF has_accept(action) THEN 1 ELSE 0)
                         + (IF has_reject(action) THEN 1 ELSE 0)
    IN
    IF action_count = 0 THEN <<TRUE, v>>
    ELSE IF action_count > 1
    THEN <<FALSE, vn_set_invalid_move(v, "Multiple actions detected")>>
    ELSE IF has_propose(action) THEN _is_valid_proposal(v, action)
    ELSE IF v.current_proposal.discounts = NoDiscounts
    THEN <<FALSE, vn_set_invalid_move(v,
              IF has_accept(action) THEN "No current proposal to accept"
              ELSE "No current proposal to reject")>>
    ELSE IF own_proposal(v)
    THEN <<FALSE, vn_set_invalid_move(v,
              IF has_accept(action) THEN "You cannot accept your own proposal"
              ELSE "You cannot reject your own proposal")>>
    ELSE <<TRUE, v>>

\* _record_action
_record_action(v, player_id, action_type, discounts) ==
    [v EXCEPT !.negotiation_history = Append(@,
        [player |-> player_id, type |-> action_type, discounts |-> discounts,
         round |-> v.turn + 1])]

\* the text before the marker is recorded when it is not empty
\* variant: the text before the marker is recorded, empty or not
record_preamble_always(v, player_id, conversation_part) ==
    [v EXCEPT !.conversation_history = Append(@,
        [player |-> player_id, message |-> conversation_part,
         round |-> v.turn + 1])]
record_preamble(v, player_id, conversation_part) ==
    IF conversation_part # <<>>
    THEN [v EXCEPT !.conversation_history = Append(@,
             [player |-> player_id, message |-> conversation_part,
              round |-> v.turn + 1])]
    ELSE v

\* _process_conversation
_process_conversation(v, player_id, action) ==
    vn_add_observation(
        _record_action(
            [v EXCEPT !.conversation_history = Append(@,
                [player |-> player_id, message |-> action,
                 round |-> v.turn + 1])],
            player_id, "conversation", NoDiscounts),
        GAME_ID, -1, <<W("Player"), Num(player_id), W(":")>> \o action,
        "GAME_MESSAGE")

\* "product:discount%, ..." of a proposal
RECURSIVE proposal_str(_, _)
proposal_str(discounts, i) ==
    IF i > Len(discounts) THEN <<>>
    ELSE <<W("product"), Num(i), W(":"), Pct(discounts[i])>>
            \o proposal_str(discounts, i + 1)

\* _process_proposal: both copies of the proposal are replaced
_process_proposal(v, player_id, action) ==
    LET Proposed(discounts, v1) ==
            vn_add_observation(
                _record_action(
                    [v1 EXCEPT
                       !.current_proposal =
                           [discounts |-> discounts, proposer |-> player_id],
                       !.gs_current_proposal =
                           [discounts |-> discounts, proposer |-> player_id]],
                    player_id, "propose", discounts),
                GAME_ID, -1,
                <<W("Player"), Num(player_id), W("proposed:")>>
                    \o proposal_str(discounts, 1),
                "GAME_ACTION_DESCRIPTION")
    IN Proposed(_extract_proposal_discounts(action),
                record_preamble(v, player_id, strip(Part0(action, "propose"))))

\* _process_accept
_process_accept(v, player_id, action) ==
    vn_add_observation(
        _record_action(record_preamble(v, player_id, strip(Part0(action, "accept"))),
                       player_id, "accept", NoDiscounts),
        GAME_ID, -1,
        <<W("Player"), Num(player_id), W("accepted the proposal")>>,
        "GAME_ACTION_DESCRIPTION")

\* _process_reject: self.current_proposal is replaced, the game_state entry
\* is not
\* variant: the rejected proposal stays on the table
_process_reject_keep_proposal(v, player_id, action) ==
    LET Rejected(v1) ==
            vn_add_observation(
                v1,
                GAME_ID, -1,
                <<W("Player"), Num(player_id), W("rejected the proposal")>>,
                "GAME_ACTION_DESCRIPTION")
    IN Rejected(_record_action(
                    record_preamble(v, player_id, strip(Part0(action, "reject"))),
                    player_id, "reject", NoDiscounts))
_process_reject(v, player_id, action) ==
    LET Rejected(v1) ==
            vn_add_observation(
                [v1 EXCEPT !.current_proposal = NoProposal],
                GAME_ID, -1,
                <<W("Player"), Num(player_id), W("rejected the proposal")>>,
                "GAME_ACTION_DESCRIPTION")
    IN Rejected(_record_action(
                    record_preamble(v, player_id, strip(Part0(action, "reject"))),
                    player_id, "reject", NoDiscounts))

\* _process_valid_action
_process_valid_action(v, player_id, action) ==
    LET Dispatch(stripped) ==
            IF has_propose(stripped)
            THEN _process_proposal(v, player_id, stripped)
            ELSE IF has_accept(stripped)
            THEN _process_accept(v, player_id, stripped)
            ELSE IF has_reject(stripped)
            THEN _process_reject(v, player_id, stripped)
            ELSE _process_conversation(v, player_id, stripped)
    IN Dispatch(strip(action))

\* _check_deal_accepted
_check_deal_accepted(v) ==
    IF v.current_proposal.discounts = NoDiscounts THEN FALSE
    ELSE IF v.negotiation_history # <<>>
    THEN LET last_action ==
                 v.negotiation_history[Len(v.negotiation_history)]
         IN /\ last_action.type = "accept"
            /\ last_action.player # v.current_proposal.proposer
    ELSE FALSE

\* state.set_draw(reason) and state.set_winner(player_id, reason): a draw
\* rewards both players with 0, a win the winner with 1 and the other
\* player with -1
set_draw(v, why) ==
    [v EXCEPT !.outcome =
        [kind |-> "draw", winner |-> None, reason |-> why,
         rewards |-> [p \in VendorPlayers |-> 0]]]
set_winner(v, player_id, why) ==
    [v EXCEPT !.outcome =
        [kind |-> "winner", winner |-> player_id, reason |-> why,
         rewards |-> [p \in VendorPlayers |->
                         IF p = player_id THEN 1 ELSE 0 - 1]]]

\* _set_final_rewards
\* variant: the winners of the two one-sided cases are exchanged
_set_final_rewards_swapped(v, brand_won, vendor_won) ==
    IF brand_won /\ vendor_won
    THEN set_draw(v, "Both players achieved their objectives")
    ELSE IF brand_won /\ ~vendor_won
    THEN set_winner(v, 1, "Brand Specialist achieved sales target")
    ELSE IF vendor_won /\ ~brand_won
    THEN set_winner(v, 0, "Vendor achieved profit target")
    ELSE set_draw(v, "Neither player achieved their objective")
_set_final_rewards(v, brand_won, vendor_won) ==
    IF brand_won /\ vendor_won
    THEN set_draw(v, "Both players achieved their objectives")
    ELSE IF brand_won /\ ~vendor_won
    THEN set_winner(v, 0, "Brand Specialist achieved sales target")
    ELSE IF vendor_won /\ ~brand_won
    THEN set_winner(v, 1, "Vendor achieved profit target")
    ELSE set_draw(v, "Neither player achieved their objective")

Status(won) == W(IF won THEN "WON" ELSE "LOST")

\* _finalize_accepted_deal: sim is what the Monte Carlo run of this call
\* finds, [brand_won, vendor_won]; the results name the agreed discounts
_finalize_accepted_deal(v, sim) ==
    _set_final_rewards(
        vn_add_observation(v, GAME_ID, -1,
            <<W("DEAL ACCEPTED"), W("AGREED DISCOUNTS:")>>
                \o proposal_str(v.current_proposal.discounts, 1)
                \o <<W("OUTCOMES:"),
                     W("Brand Specialist:"), Status(sim.brand_won),
                     W("Vendor:"), Status(sim.vendor_won)>>,
            "GAME_ADMIN"),
        sim.brand_won, sim.vendor_won)

\* _handle_no_deal
_handle_no_deal(v) ==
    _set_final_rewards(
        vn_add_observation(v, GAME_ID, -1,
            <<W("NO DEAL REACHED"), W("OUTCOMES:"),
              W("Brand Specialist:"), Status(FALSE),
              W("Vendor:"), Status(FALSE)>>,
            "GAME_ADMIN"),
        FALSE, FALSE)

\* _end_game
vn_end_game(v, deal_accepted, sim) ==
    LET Ended(v1) == [v1 EXCEPT !.done = TRUE, !.egc = @ + 1]
    IN Ended(IF deal_accepted THEN _finalize_accepted_deal(v, sim)
             ELSE _handle_no_deal(v))

\* state.step() of the two-player state: after a valid action of a game
\* that goes on the turn is counted and passes to the other player
state_step(v, valid) ==
    IF v.done \/ ~valid THEN v
    ELSE [v EXCEPT !.turn = @ + 1,
                   !.current_player_id = 1 - @]

\* step(action): the end of the game is looked for after every action,
\* valid or not
\* variant: the last turn is the one counted max_rounds
vn_end_check_late(v, sim) ==
    IF _check_deal_accepted(v) \/ v.turn >= max_rounds
    THEN vn_end_game(v, _check_deal_accepted(v), sim)
    ELSE v
vn_end_check(v, sim) ==
    IF _check_deal_accepted(v) \/ v.turn >= max_rounds - 1
    THEN vn_end_game(v, _check_deal_accepted(v), sim)
    ELSE v
\* step(action): <<valid, state>>
\* variant: the step does not end with state.step()
vn_step_no_turn(v0, action, sim) ==
    LET Processed(va, player) ==
            IF va[1] THEN _process_valid_action(va[2], player, action)
            ELSE va[2]
        Result(va, player) ==
            <<va[1], vn_end_check(Processed(va, player), sim)>>
        Logged(v1) ==
            Result(_is_valid_action(v1, action), v1.current_player_id)
    IN Logged(vn_add_observation(v0, v0.current_player_id,
                                 v0.current_player_id,
                                 <<W("Your action:")>> \o action,
                                 "PLAYER_ACTION"))
vn_step(v0, action, sim) ==
    LET Processed(va, player) ==
            IF va[1] THEN _process_valid_action(va[2], player, action)
            ELSE va[2]
        Result(va, player) ==
            <<va[1],
              state_step(vn_end_check(Processed(va, player), sim),
                         va[1])>>
        Logged(v1) ==
            Result(_is_valid_action(v1, action), v1.current_player_id)
    IN Logged(vn_add_observation(v0, v0.current_player_id,
                                 v0.current_player_id,
                                 <<W("Your action:")>> \o action,
                                 "PLAYER_ACTION"))

\* get_board_str(): sim is what the Monte Carlo run of this call finds; of
\* the board of an ongoing game the round and the proposal are kept
get_board_str(v, sim) ==
    IF v.done
    THEN IF v.current_proposal.discounts # NoDiscounts
            /\ _check_deal_accepted(v)
         THEN <<W("DEAL ACCEPTED"), W("AGREED DISCOUNTS:")>>
                  \o proposal_str(v.current_proposal.discounts, 1)
                  \o <<W("OUTCOMES:"),
                       W("Brand Specialist:"), Status(sim.brand_won),
                       W("Vendor:"), Status(sim.vendor_won)>>
         ELSE <<W("NO DEAL REACHED"), W("OUTCOMES:"),
                W("Brand Specialist:"), Status(FALSE),
                W("Vendor:"), Status(FALSE)>>
    ELSE <<W("ROUND"), Num(v.turn + 1)>>
             \o (IF v.current_proposal.discounts # NoDiscounts
                 THEN <<W("CURRENT PROPOSAL:")>>
                          \o proposal_str(v.current_proposal.discounts, 1)
                          \o <<W("Proposed by: Player"),
                               Num(v.current_proposal.proposer)>>
                 ELSE <<W("NO CURRENT PROPOSAL")>>)

\* reset(num_players = 2): the state of a new negotiation
VendorFresh ==
    [turn |-> 0, current_player_id |-> 0, done |-> FALSE,
     current_proposal |-> NoProposal, gs_current_proposal |-> NoProposal,
     negotiation_history |-> <<>>, conversation_history |-> <<>>,
     outcome |-> [kind |-> "none", winner |-> None, reason |-> "",
                  rewards |-> <<>>],
     strikes |-> [p \in VendorPlayers |-> 0],
     obs |-> <<>>, reason |-> "", egc |-> 0]

\* what a step call of the negotiation found when it was made
VnBefore(v) ==
    [turn |-> v.turn, done |-> v.done, strikes |-> v.strikes,
     current_proposal |-> v.current_proposal,
     history_len |-> Len(v.negotiation_history),
     talk_len |-> Len(v.conversation_history),
     conversation_history |-> v.conversation_history,
     outcome |-> v.outcome, current_player_id |-> v.current_player_id]

VnNoStep ==
    [actor |-> None, action |-> <<>>, valid |-> FALSE, reason |-> "",
     before |-> VnBefore(VendorFresh)]

(***************************************************************************)
(* reset(num_players = 4)                                                  *)
(***************************************************************************)
NoRewards == [p \in {} |-> 0]

\* what a step call found when it was made
Before(s) ==
    [round |-> s.round, phase |-> s.phase, choices |-> s.choices,
     talk_round |-> s.talk_round, passed |-> s.passed, done |-> s.done,
     history_len |-> Len(s.history), scores |-> s.scores,
     cur |-> s.cur, strikes |-> s.strikes,
     rewards |-> s.rewards, winners |-> s.winners]

NoStep ==
    [actor |-> None, action |-> <<>>, success |-> FALSE, reason |-> "",
     routed |-> <<>>,
     before |-> [round |-> 1, phase |-> "act", choices |-> NoChoices,
                 talk_round |-> 0, passed |-> {}, done |-> FALSE,
                 history_len |-> 0, scores |-> [p \in Players |-> 0],
                 cur |-> 0, strikes |-> [p \in Players |-> 0],
                 rewards |-> NoRewards, winners |-> <<>>]]

Init ==
    /\ current_round = 1
    /\ current_phase = "act"
    /\ player_choices = NoChoices
    /\ player_scores = [p \in Players |-> 0]
    /\ round_history = <<>>
    /\ talk_round = 0
    /\ players_passed = {}
    /\ talk_messages_new = <<>>
    /\ current_player_id = 0
    /\ done = FALSE
    /\ rewards = NoRewards
    /\ winners = <<>>
    /\ step_obs = <<>>
    /\ last = NoStep
    /\ end_game_calls = 0
    /\ strikes = [p \in Players |-> 0]
    /\ vendor = VendorFresh
    /\ vn_last = VnNoStep
    /\ board_strs = <<>>

(***************************************************************************)
(* The actions the players submit                                          *)
(***************************************************************************)
Targets == {ToString(n) : n \in 0 .. MaxTarget} \cup {"-1"}

Actions ==
    {<<M("chooseX")>>, <<M("chooseY")>>, <<M("chooseX"), M("chooseY")>>,
     <<M("pass")>>, <<W("hello")>>,
     <<M("broadcast"), W("hi")>>, <<M("broadcast")>>,
     <<M("broadcast"), W("hi"), M("pass")>>,
     <<Wh("1")>>}
    \cup {<<Wh(t), W("secret")>> : t \in Targets}

\* the actions of the driver that sets the acting player itself
Commands ==
    {<<M("chooseX")>>, <<M("chooseY")>>, <<M("pass")>>, <<W("hello")>>,
     <<M("broadcast"), W("hi")>>}

\* [Choose Y] is an answer of the rounds YRounds only
Offered(a) ==
    (current_phase = "act" /\ choose_y_pattern(a) # 0)
        => current_round \in YRounds

Apply(r, actor, action) ==
    LET s == r[2] IN
    /\ current_round' = s.round
    /\ current_phase' = s.phase
    /\ player_choices' = s.choices
    /\ player_scores' = s.scores
    /\ round_history' = s.history
    /\ talk_round' = s.talk_round
    /\ players_passed' = s.passed
    /\ talk_messages_new' = s.msgs
    /\ current_player_id' = s.cur
    /\ done' = s.done
    /\ rewards' = s.rewards
    /\ winners' = s.winners
    /\ step_obs' = s.obs
    /\ end_game_calls' = s.egc
    /\ strikes' = s.strikes
    /\ UNCHANGED <<vendor, vn_last, board_strs>>
    /\ last' = [actor |-> actor, action |-> action, success |-> r[1],
                reason |-> s.reason, routed |-> s.routed,
                before |-> Before([State EXCEPT !.cur = actor])]

\* the invalid moves charged so far in the game
Faults == strikes[0] + strikes[1] + strikes[2] + strikes[3]

\* r is the outcome of a step the drivers go through with
Tolerated(r) == r[1] \/ Faults < MaxFaults

\* the drivers go through with the step call whose outcome is r
Submit(r, actor, action) == Tolerated(r) /\ Apply(r, actor, action)

\* env.step(action): the current player acts
Step ==
    \E a \in Actions :
        /\ Offered(a)
        /\ Submit(step(State, a), current_player_id, a)

\* env.state.current_player_id = player; env.step(action): the driver lets
\* any player answer in an act phase, and in a talk phase lets a player who
\* has passed try to speak again
StepAs ==
    \E p \in Players, a \in Commands :
        /\ \/ current_phase = "act"
           \/ p = current_player_id
           \/ p \in players_passed
        /\ Offered(a)
        /\ (current_phase = "talk" /\ broadcast_pattern(a) # 0)
                => talk_round < MaxChat
        /\ Submit(step([State EXCEPT !.cur = p], a), p, a)

Next == Step

Spec == Init /\ [][Next]_vars

\* env.step(action): the current player submits one of the commands
StepCommand ==
    \E a \in Commands :
        /\ Offered(a)
        /\ Submit(step(State, a), current_player_id, a)

NextCommand == StepCommand

\* a step call whose action is accepted
AcceptedStep == StepCommand /\ last'.success

\* the players keep playing: until the game is done, whoever is the current
\* player eventually submits an action that is accepted
KeepPlaying == ([]<>done) \/ ([]<><<AcceptedStep>>_vars)

SpecLive == Init /\ [][NextCommand]_vars /\ KeepPlaying

NextAnyOrder == StepAs

SpecAnyOrder == Init /\ [][NextAnyOrder]_vars

(***************************************************************************)
(* Scoring of any round with any answers: the games in which everybody     *)
(* gives the same answer in the earlier rounds and passes at once in the   *)
(* talk phases, taken up when three players have answered in round r       *)
(***************************************************************************)
Letters == {"X", "Y"}
Choose(c) == IF c = "X" THEN <<M("chooseX")>> ELSE <<M("chooseY")>>

\* the state reset() leaves
Fresh ==
    [round |-> 1, phase |-> "act", choices |-> NoChoices,
     scores |-> [p \in Players |-> 0], history |-> <<>>, talk_round |-> 0,
     passed |-> {}, msgs |-> <<>>, cur |-> 0, done |-> FALSE,
     rewards |-> NoRewards, winners |-> <<>>, obs |-> <<>>, routed |-> <<>>,
     reason |-> "", egc |-> 0, strikes |-> [p \in Players |-> 0]]

\* the state before the next step call: the per-step fields start empty
Called(s) ==
    [s EXCEPT !.msgs = <<>>, !.obs = <<>>, !.routed = <<>>, !.reason = ""]

\* the actions of round k in which everybody answers c
RoundOf(k, c) ==
    (IF k \in communication_rounds
     THEN [i \in 1 .. num_players |-> <<M("pass")>>] ELSE <<>>)
        \o [i \in 1 .. num_players |-> Choose(c)]

RECURSIVE RoundsOf(_, _)
RoundsOf(k, c) == IF k = 0 THEN <<>> ELSE RoundsOf(k - 1, c) \o RoundOf(k, c)

\* the driver's loop over a script of actions
RECURSIVE Play(_, _)
Play(s, script) ==
    IF s.done \/ script = <<>> THEN s
    ELSE Play(step(Called(s), Head(script))[2], Tail(script))

\* the variables hold state s, reached by the step call `action` from s0
InState(s, s0, action) ==
    /\ current_round = s.round
    /\ current_phase = s.phase
    /\ player_choices = s.choices
    /\ player_scores = s.scores
    /\ round_history = s.history
    /\ talk_round = s.talk_round
    /\ players_passed = s.passed
    /\ talk_messages_new = s.msgs
    /\ current_player_id = s.cur
    /\ done = s.done
    /\ rewards = s.rewards
    /\ winners = s.winners
    /\ step_obs = s.obs
    /\ end_game_calls = s.egc
    /\ strikes = s.strikes
    /\ vendor = VendorFresh
    /\ vn_last = VnNoStep
    /\ board_strs = <<>>
    /\ last = [actor |-> s0.cur, action |-> action, success |-> TRUE,
               reason |-> s.reason, routed |-> s.routed,
               before |-> Before(s0)]

InitScore ==
    \E r \in 1 .. final_round, c \in Letters, c0 \in Letters,
       c1 \in Letters, c2 \in Letters :
        LET script == RoundsOf(r - 1, c)
                        \o SubSeq(RoundOf(r, c), 1, Len(RoundOf(r, c)) - 4)
                        \o <<Choose(c0), Choose(c1)>>
            s0 == Play(Fresh, script)
        IN InState(step(Called(s0), Choose(c2))[2], s0, Choose(c2))

\* env.step(action): the fourth player of the round answers
StepScore ==
    \E c \in Letters :
        /\ current_phase = "act" /\ ~done
        /\ Cardinality(DOMAIN player_choices) = 3
        /\ Apply(step(State, Choose(c)), current_player_id, Choose(c))

NextScore == StepScore

SpecScore == InitScore /\ [][NextScore]_vars

(***************************************************************************)
(* The reference driver with players who keep submitting invalid actions   *)
(* until the ledger has charged them more than the allowance               *)
(***************************************************************************)
Careless == {<<M("chooseX")>>, <<M("pass")>>, <<W("hello")>>}

StepCareless ==
    \E a \in Careless :
        /\ ~done
        /\ step(State, a)[1] \/ is_eligible(strikes, current_player_id)
        /\ Apply(step(State, a), current_player_id, a)

NextStrikes == StepCareless

SpecStrikes == Init /\ [][NextStrikes]_vars

(***************************************************************************)
(* The driver of a negotiation: the player whose turn it is submits one of *)
(* the actions below until the game is done.                               *)
(***************************************************************************)
VendorActions ==
    {<<W("hello"), Sp>>,
     <<W("deal?"), Sp, M("propose"), Sp, Pct(15), Pct(20)>>,
     <<M("propose"), Pct(0), Pct(30)>>,
     <<M("propose"), Pct(10), Pct(15)>>,
     <<M("propose"), Pct(15)>>,
     <<Sp, M("accept")>>, <<Sp, W("no"), Sp, M("reject")>>,
     <<M("accept"), M("reject")>>,
     <<M("propose"), Pct(15), Pct(20), M("accept")>>}

\* what the simulation of an accepted deal can find
Sims == [brand_won : BOOLEAN, vendor_won : BOOLEAN]

\* the observations and the reason of a step call start empty
VnCalled(v) == [v EXCEPT !.obs = <<>>, !.reason = ""]

VnFaults == vendor.strikes[0] + vendor.strikes[1]
VnTolerated(r) == r[1] \/ VnFaults < MaxFaults

VnApply(r, actor, action) ==
    /\ vendor' = r[2]
    /\ vn_last' = [actor |-> actor, action |-> action, valid |-> r[1],
                   reason |-> r[2].reason, before |-> VnBefore(vendor)]
    /\ board_strs' = <<>>
    /\ UNCHANGED <<current_round, current_phase, player_choices,
                   player_scores, round_history, talk_round, players_passed,
                   talk_messages_new, current_player_id, done, rewards,
                   winners, step_obs, last, end_game_calls, strikes>>

\* env.step(action) of the negotiation; the driver makes at most one more
\* call once the game is done
VendorStep ==
    \E a \in VendorActions, sim \in Sims :
        /\ ~vn_last.before.done
        /\ VnTolerated(vn_step(VnCalled(vendor), a, sim))
        /\ VnApply(vn_step(VnCalled(vendor), a, sim),
                   vendor.current_player_id, a)

\* a run is a game of one of the two environments
NextEither ==
    \/ vn_last = VnNoStep /\ Step
    \/ last = NoStep /\ VendorStep

SpecEither == Init /\ [][NextEither]_vars

\* a run of the negotiation alone
NextVendor == VendorStep

SpecVendor == Init /\ [][NextVendor]_vars

\* the board is rendered at most this many times between two step calls
MaxBoardCalls == 2

\* env.get_board_str(): the caller renders the board; nothing of the
\* environment changes
GetBoardStr ==
    \E sim \in Sims :
        /\ Len(board_strs) < MaxBoardCalls
        /\ board_strs' = Append(board_strs, get_board_str(vendor, sim))
        /\ UNCHANGED <<current_round, current_phase, player_choices,
                       player_scores, round_history, talk_round,
                       players_passed, talk_messages_new, current_player_id,
                       done, rewards, winners, step_obs, last,
                       end_game_calls, strikes, vendor, vn_last>>

\* a run of the negotiation whose board is rendered between the steps
NextBoard ==
    \/ VendorStep
    \/ GetBoardStr

SpecBoard == Init /\ [][NextBoard]_vars

TypeOK ==
    /\ current_round \in 1 .. final_round
    /\ current_phase \in {"act", "talk"}
    /\ DOMAIN player_choices \subseteq Players
    /\ talk_round \in 0 .. max_talk_rounds
    /\ players_passed \subseteq Players
    /\ current_player_id \in Players
    /\ done \in BOOLEAN
    /\ strikes \in [Players -> 0 .. (error_allowance + 1)]
    /\ vendor.turn \in 0 .. max_rounds
    /\ vendor.current_player_id \in VendorPlayers
    /\ vendor.done \in BOOLEAN
    /\ vendor.strikes \in [VendorPlayers -> 0 .. (error_allowance + 1)]
    /\ vendor.outcome.kind \in {"none", "draw", "winner"}
    /\ vn_last.actor \in VendorPlayers \cup {None}
    /\ Len(board_strs) \in 0 .. MaxBoardCalls

(***************************************************************************)
(* Properties                                                              *)
(***************************************************************************)
Stepped == last.actor # None
B == last.before
Min(S) == CHOOSE m \in S : \A n \in S : m <= n
Chosen == DOMAIN player_choices
\* the step just taken completed the phase it was made in
PhaseCompleted ==
    \/ current_round # B.round
    \/ current_phase # B.phase
    \/ (done /\ ~B.done)

\* C1: in every complete game _end_game runs exactly once, in the step that
\* records the fourth choice of round 10: never earlier, never a second time
C1_EndGameExactlyOnce ==
    /\ end_game_calls <= 1
    /\ done <=> end_game_calls = 1
    /\ end_game_calls >= 1 =>
          /\ current_round = final_round
          /\ current_phase = "act"
          /\ Chosen = Players
          /\ Len(round_history) = final_round

\* the (round, phase) schedule of a game
Schedule ==
    << <<1, "act">>, <<2, "act">>, <<3, "act">>, <<4, "act">>,
       <<5, "talk">>, <<5, "act">>, <<6, "act">>, <<7, "act">>,
       <<8, "talk">>, <<8, "act">>, <<9, "act">>,
       <<10, "talk">>, <<10, "act">> >>

\* C2: the (round, phase) pair starts at (1, act) and a step either keeps it
\* or moves it to the next entry of the schedule; the round never decreases
\* and grows by exactly 1, only when an act phase completes; talk phases
\* occur in rounds 5, 8 and 10 only, before the act phase of the round
C2_Schedule ==
    \E i \in 1 .. Len(Schedule) :
        /\ <<current_round, current_phase>> = Schedule[i]
        /\ ~Stepped => i = 1
        /\ Stepped =>
              \/ <<B.round, B.phase>> = Schedule[i]
              \/ i > 1 /\ <<B.round, B.phase>> = Schedule[i - 1]
        /\ Stepped =>
              /\ current_round \in {B.round, B.round + 1}
              /\ current_round = B.round + 1 =>
                    /\ B.phase = "act"
                    /\ last.success
                    /\ Cardinality(DOMAIN B.choices) = 3
        /\ current_phase = "talk" => current_round \in {5, 8, 10}

\* C2 witness: the act phase of round 10 entered from its talk phase
C2_Witness ==
    /\ Stepped /\ B.round = 10 /\ B.phase = "talk"
    /\ current_round = 10 /\ current_phase = "act"

\* C3: in an act phase a player has at most one recorded choice per round (a
\* second choice is rejected and leaves the recorded choices as they were),
\* and the round is scored and the phase completed by exactly the step that
\* records the fourth player's choice
C3_OneChoiceEach ==
    (Stepped /\ B.phase = "act") =>
        LET scored == Len(round_history) = B.history_len + 1 IN
        /\ last.actor \in DOMAIN B.choices =>
              ~last.success /\ player_choices = B.choices
        /\ ~last.success => player_choices = B.choices
        /\ scored <=> (last.success /\ Cardinality(DOMAIN B.choices) = 3)
        /\ scored <=> PhaseCompleted
        /\ ~scored => Len(round_history) = B.history_len
        /\ scored =>
              /\ DOMAIN round_history[Len(round_history)].choices = Players
              /\ \A q \in DOMAIN B.choices :
                    round_history[Len(round_history)].choices[q] = B.choices[q]
        /\ (last.success /\ ~scored) =>
              /\ Chosen = DOMAIN B.choices \cup {last.actor}
              /\ last.actor \notin DOMAIN B.choices
              /\ \A q \in DOMAIN B.choices : player_choices[q] = B.choices[q]

\* C3 witness: a second [Choose] by a player who has chosen, before the
\* round is complete
C3_Witness ==
    /\ Stepped /\ B.phase = "act" /\ ~B.done
    /\ last.actor \in DOMAIN B.choices
    /\ Cardinality(DOMAIN B.choices) < 4
    /\ choose_x_pattern(last.action) # 0
    /\ ~last.success

\* C4: a talk phase ends at exactly the first accepted talk action after
\* which talk_round has reached 40 or all four players have passed; only
\* accepted actions count towards talk_round, which never exceeds 40
C4_TalkPhaseEnd ==
    /\ talk_round <= 40
    /\ current_phase = "talk" => (talk_round < 40 /\ players_passed # Players)
    /\ (Stepped /\ B.phase = "talk") =>
          /\ last.success => talk_round = B.talk_round + 1
          /\ ~last.success => talk_round = B.talk_round
          /\ current_phase = "act" <=>
                (last.success /\ (talk_round >= 40 \/ players_passed = Players))

\* C4 witness: the 40th accepted talk action ends a phase in which not
\* everybody has passed
C4_Witness ==
    /\ Stepped /\ B.phase = "talk" /\ current_phase = "act"
    /\ talk_round = 40 /\ players_passed # Players

\* C5: in a talk phase in which nobody has passed, an accepted talk action of
\* player A gives the turn to (A + 1) mod 4, so that four accepted actions
\* visit A+1, A+2, A+3 and return to A; a rejected action keeps the turn
C5_RoundRobin ==
    (Stepped /\ B.phase = "talk" /\ current_phase = "talk"
        /\ players_passed = {}) =>
        /\ last.success => current_player_id = (last.actor + 1) % 4
        /\ ~last.success => current_player_id = last.actor

\* C5 witness: the turn wraps around from player 3 to player 0
C5_Witness ==
    /\ Stepped /\ B.phase = "talk" /\ current_phase = "talk"
    /\ players_passed = {} /\ last.success
    /\ last.actor = 3 /\ current_player_id = 0 /\ talk_round >= 4

\* the first player after a, in ascending order with wrap-around, who is
\* not in passed (a itself when it is the only one left)
NextNonPassed(a, passed) ==
    CHOOSE q \in Players \ passed :
        \A r \in Players \ passed :
            ((q + 4 - a - 1) % 4) <= ((r + 4 - a - 1) % 4)

\* C6: once a player's [Pass] is accepted, until the talk phase ends the
\* environment never gives that player the turn and accepts no talk action
\* of that player; the turn goes to the next player who has not passed, in
\* ascending order with wrap-around
C6_PassedSkipped ==
    /\ (current_phase = "talk" /\ current_player_id \in players_passed) =>
          (Stepped /\ last.actor = current_player_id /\ ~last.success)
    /\ (Stepped /\ B.phase = "talk") =>
          /\ last.actor \in B.passed =>
                /\ ~last.success
                /\ players_passed = B.passed
                /\ talk_round = B.talk_round
                /\ talk_messages_new = <<>>
          /\ B.passed \subseteq players_passed
          /\ (last.success /\ current_phase = "talk") =>
                /\ current_player_id \notin players_passed
                /\ current_player_id = NextNonPassed(last.actor, players_passed)

\* C6 witness: the turn skips a player who has passed
C6_Witness ==
    /\ Stepped /\ B.phase = "talk" /\ current_phase = "talk" /\ last.success
    /\ ((last.actor + 1) % 4) \in players_passed
    /\ last.actor \notin players_passed
    /\ current_player_id # last.actor

\* C7: in an act phase of a game that is not done the current player is the
\* lowest-indexed player with no recorded choice, and
\* _get_next_player_needing_choice returns that player, or None when all
\* four have chosen
C7_LowestChooser ==
    /\ (current_phase = "act" /\ ~done) =>
          /\ Chosen # Players
          /\ current_player_id = Min(Players \ Chosen)
    /\ _get_next_player_needing_choice(State) =
          (IF Chosen = Players THEN None ELSE Min(Players \ Chosen))

\* C7 witness: players 0 and 1 have chosen and player 2 is to choose
C7_Witness ==
    /\ Stepped /\ last.success /\ current_phase = "act" /\ ~done
    /\ Chosen = {0, 1} /\ current_player_id = 2

\* C8: in an act phase [Choose X] or [Choose Y] of a player with no recorded
\* choice is accepted and recorded whoever else has or has not chosen
C8_AnyOrderAccepted ==
    (/\ Stepped /\ B.phase = "act"
     /\ last.actor \notin DOMAIN B.choices
     /\ last.action \in {<<M("chooseX")>>, <<M("chooseY")>>}) =>
        LET letter == IF last.action = <<M("chooseX")>> THEN "X" ELSE "Y"
            recorded == IF Len(round_history) > B.history_len
                        THEN round_history[Len(round_history)].choices
                        ELSE player_choices
        IN /\ last.success
           /\ last.actor \in DOMAIN recorded
           /\ recorded[last.actor] = letter

\* C8 witness: player 3 chooses while player 0 has not
C8_Witness ==
    /\ Stepped /\ B.phase = "act" /\ last.success
    /\ last.actor = 3 /\ 0 \notin DOMAIN B.choices /\ 0 \notin Chosen
    /\ 3 \in Chosen

\* the whispers the last step accepted
AcceptedWhispers ==
    {i \in 1 .. Len(talk_messages_new) : talk_messages_new[i].type = "whisper"}

\* C9: the body of an accepted whisper from S to T reaches S and T only: no
\* observation of the step addressed to another player contains it, be it
\* the logged action or a game announcement
C9_WhisperPrivate ==
    \A i \in AcceptedWhispers :
        LET m == talk_messages_new[i] IN
        \A j \in 1 .. Len(step_obs) :
            Contains(step_obs[j].msg, m.message) =>
                step_obs[j].to \in {m.from, int(m.to)}

\* C9 witness: a whisper was accepted and the other players were told of it
C9_Witness ==
    /\ AcceptedWhispers # {}
    /\ last.success
    /\ \E j \in 1 .. Len(step_obs) :
          step_obs[j].to \notin {last.actor, int(talk_messages_new[1].to)}

\* C10: processing an accepted whisper from S to T adds exactly one game
\* observation per player: T gets the body attributed to S, S a confirmation
\* naming T, and the two others the same notice, which holds neither the
\* body nor the name of S or T
C10_WhisperRouting ==
    \A i \in AcceptedWhispers :
        LET m == talk_messages_new[i]
            S == m.from
            T == int(m.to)
            ForPlayer(p) ==
                {j \in 1 .. Len(last.routed) : last.routed[j].to = p}
            Msg(p) == last.routed[CHOOSE j \in ForPlayer(p) : TRUE].msg
        IN
        /\ Len(last.routed) = 4
        /\ \A j \in 1 .. Len(last.routed) :
              /\ last.routed[j].from = GAME_ID
              /\ last.routed[j].type = "GAME_ACTION_DESCRIPTION"
        /\ \A p \in Players : Cardinality(ForPlayer(p)) = 1
        /\ Contains(Msg(T), m.message) /\ Contains(Msg(T), <<Num(S)>>)
        /\ Contains(Msg(S), <<Num(T)>>)
        /\ \A p \in Players \ {S, T} :
              /\ ~Contains(Msg(p), m.message)
              /\ ~Contains(Msg(p), <<Num(S)>>)
              /\ ~Contains(Msg(p), <<Num(T)>>)
              /\ \A q \in Players \ {S, T} : Msg(q) = Msg(p)

\* C10 witness: player 2 whispered to player 1
C10_Witness ==
    /\ AcceptedWhispers # {}
    /\ last.success /\ last.actor = 2
    /\ talk_messages_new[1].to = "1"
    /\ Len(last.routed) = 4

\* the table of the rules: the points of an answer given the number of X's
RuleBase(c, nx) ==
    CASE nx = 1 -> (IF c = "X" THEN 3 ELSE 0 - 1)
      [] nx = 2 -> (IF c = "X" THEN 2 ELSE 0 - 2)
      [] nx = 3 -> (IF c = "X" THEN 1 ELSE 0 - 3)
      [] nx = 4 -> 0 - 1
      [] nx = 0 -> 1
RuleMultiplier(r) ==
    IF r = 5 THEN 3 ELSE IF r = 8 THEN 5 ELSE IF r = 10 THEN 10 ELSE 1

\* C11: the step that records the fourth answer of round r adds to every
\* player's score base(answer, number of X) * multiplier(r), with the base
\* table and the multipliers 3, 5, 10 (rounds 5, 8, 10) and 1 of the rules
C11_Scoring ==
    (/\ Stepped /\ B.phase = "act" /\ last.success
     /\ Cardinality(DOMAIN B.choices) = 3) =>
        LET letter == IF choose_x_pattern(last.action) # 0 THEN "X" ELSE "Y"
            answer == [p \in Players |->
                         IF p = last.actor THEN letter ELSE B.choices[p]]
            nx == Cardinality({p \in Players : answer[p] = "X"})
        IN \A p \in Players :
              player_scores[p] =
                  B.scores[p] + RuleBase(answer[p], nx) * RuleMultiplier(B.round)

\* C11 witness: round 8 scored with one X and three Y's
C11_Witness ==
    /\ Stepped /\ B.phase = "act" /\ last.success /\ B.round = 8
    /\ Cardinality(DOMAIN B.choices) = 3
    /\ last.action = <<M("chooseX")>>
    /\ \A p \in DOMAIN B.choices : B.choices[p] = "Y"
    /\ player_scores[last.actor] = B.scores[last.actor] + 15

\* C12: the game starts in an act phase with no recorded choice; every step
\* that enters an act phase (from a talk phase or from the act phase of the
\* round before) leaves player_choices empty, and every step that enters a
\* talk phase leaves players_passed empty and talk_round 0
C12_FreshOnEntry ==
    /\ ~Stepped => (current_phase = "act" /\ player_choices = NoChoices)
    /\ (Stepped /\ (current_round # B.round \/ current_phase # B.phase)) =>
          /\ current_phase = "act" => player_choices = NoChoices
          /\ current_phase = "talk" =>
                (players_passed = {} /\ talk_round = 0)

\* C12 witness: the act phase of round 8 is entered from a talk phase that
\* still held the choices of round 7 and in which everybody passed
C12_Witness ==
    /\ Stepped /\ B.round = 8 /\ B.phase = "talk" /\ current_phase = "act"
    /\ DOMAIN B.choices = Players /\ Cardinality(B.passed) = 3
    /\ player_choices = NoChoices

\* C13: no state holds data of a phase that has ended: in a talk phase
\* player_choices is empty, and in an act phase players_passed is empty and
\* talk_round is 0
C13_NoLeftovers ==
    /\ current_phase = "talk" => player_choices = NoChoices
    /\ current_phase = "act" => (players_passed = {} /\ talk_round = 0)

\* C14: a rejected action leaves the turn with the player who submitted it
\* and leaves current_round, current_phase, player_choices, players_passed,
\* talk_round, talk_messages, player_scores and round_history as they were;
\* it does not end the game
C14_RejectedChangesNothing ==
    (Stepped /\ ~last.success) =>
        /\ current_player_id = B.cur
        /\ current_round = B.round
        /\ current_phase = B.phase
        /\ player_choices = B.choices
        /\ players_passed = B.passed
        /\ talk_round = B.talk_round
        /\ talk_messages_new = <<>>
        /\ player_scores = B.scores
        /\ Len(round_history) = B.history_len
        /\ done = B.done

\* C14 witness: a rejected action in a talk phase in which somebody else
\* has passed and the actor could have spoken
C14_Witness ==
    /\ Stepped /\ ~last.success /\ ~B.done
    /\ B.phase = "talk" /\ B.talk_round > 0
    /\ B.passed # {} /\ last.actor \notin B.passed
    /\ last.reason # ""

\* C15: with error allowance 2 a player whose third consecutive action is
\* rejected is no longer eligible, and no turn selector returns a player who
\* is not eligible
C15_IneligibleNeverSelected ==
    /\ (/\ Stepped /\ ~last.success /\ B.strikes[last.actor] = 2
        /\ error_allowance = 2) => ~is_eligible(strikes, last.actor)
    /\ \A p \in Players :
          ~is_eligible(strikes, p) =>
              /\ _get_next_talk_player(State) # p
              /\ _get_next_player_needing_choice(State) # p

(***************************************************************************)
(* C16: no rejected action ever makes the game done.  In both environments,*)
(* after a step whose action is rejected, a game that was not done when    *)
(* the step was made is still not done, whatever the number of invalid     *)
(* actions so far and whatever the turn count.                             *)
(***************************************************************************)
C16_RejectedNeverEnds ==
    /\ (last.actor # None /\ ~last.success /\ ~last.before.done) => ~done
    /\ (vn_last.actor # None /\ ~vn_last.valid /\ ~vn_last.before.done)
          => ~vendor.done

\* the negotiation has been stepped; what that step found
VnStepped == vn_last.actor # None
VB == vn_last.before

\* an action without any bracketed command
FreeText(action) ==
    /\ \E i \in 1 .. Len(action) : action[i].k = "word"
    /\ \A i \in 1 .. Len(action) : action[i].k \in {"word", "space"}

(***************************************************************************)
(* C17 as stated: in both environments, and in either phase of             *)
(* WinAsMuchAsYouCan, an action that contains no recognised bracketed      *)
(* command is accepted and is not charged as an invalid move.              *)
(***************************************************************************)
C17_FreeTextAccepted ==
    /\ (VnStepped /\ FreeText(vn_last.action)) =>
          (vn_last.valid /\ vendor.strikes = VB.strikes)
    /\ (Stepped /\ FreeText(last.action)) =>
          (last.success /\ strikes = B.strikes)

(***************************************************************************)
(* C17 amended: in VendorNegotiation an action that contains no bracketed  *)
(* command is accepted as conversation, is not charged, and is recorded in *)
(* the conversation history; in WinAsMuchAsYouCan, in either phase, such   *)
(* an action is rejected with a reason and charged to the acting player as *)
(* one invalid move.                                                       *)
(***************************************************************************)
C17_FreeTextByEnvironment ==
    /\ (VnStepped /\ FreeText(vn_last.action)) =>
          /\ vn_last.valid
          /\ vn_last.reason = ""
          /\ vendor.strikes = VB.strikes
          /\ Len(vendor.conversation_history) = VB.talk_len + 1
    /\ (Stepped /\ FreeText(last.action)) =>
          /\ ~last.success
          /\ last.reason # ""
          /\ strikes = [B.strikes EXCEPT ![last.actor] = @ + 1]

\* C17 witness: free text submitted in a talk phase of WinAsMuchAsYouCan by
\* the player whose turn it is, and rejected
C17_Witness ==
    /\ Stepped /\ FreeText(last.action) /\ ~B.done
    /\ B.phase = "talk" /\ B.talk_round > 0 /\ last.actor \notin B.passed
    /\ ~last.success /\ strikes[last.actor] = 1

\* the kinds of bracketed command an action contains
CommandKinds(action) ==
    {action[i].k : i \in 1 .. Len(action)} \ {"word", "pct", "space"}

(***************************************************************************)
(* C18: in both environments an action that contains markers of more than  *)
(* one distinct command kind is rejected and charged to the acting player  *)
(* as an invalid move, and none of its commands is executed: no proposal,  *)
(* acceptance or rejection is recorded, and no choice, pass or message.    *)
(***************************************************************************)
C18_MultipleCommandsRejected ==
    /\ (VnStepped /\ Cardinality(CommandKinds(vn_last.action)) > 1) =>
          /\ ~vn_last.valid
          /\ vendor.strikes = [VB.strikes EXCEPT ![vn_last.actor] = @ + 1]
          /\ vendor.current_proposal = VB.current_proposal
          /\ Len(vendor.negotiation_history) = VB.history_len
    /\ (Stepped /\ ~B.done /\ Cardinality(CommandKinds(last.action)) > 1) =>
          /\ ~last.success
          /\ strikes = [B.strikes EXCEPT ![last.actor] = @ + 1]
          /\ player_choices = B.choices
          /\ players_passed = B.passed
          /\ talk_messages_new = <<>>

\* the step just taken was a whisper of a player who may speak, in a talk
\* phase, addressed to the sender
WhisperedToSelf ==
    /\ Stepped /\ ~B.done
    /\ B.phase = "talk" /\ last.actor \notin B.passed
    /\ broadcast_pattern(last.action) = 0
    /\ whisper_pattern(last.action) # 0
    /\ int(last.action[whisper_pattern(last.action)].v) = last.actor

ActedAgain ==
    /\ Stepped /\ ~B.done
    /\ \/ B.phase = "talk" /\ last.actor \in B.passed
       \/ /\ B.phase = "act" /\ last.actor \in DOMAIN B.choices
          /\ \/ choose_x_pattern(last.action) # 0
             \/ choose_y_pattern(last.action) # 0

(***************************************************************************)
(* C20: an action by a player who may not act again in the current phase   *)
(* (a talk action by a player who already passed, a second choice by a     *)
(* player who already chose this round) is rejected without being charged  *)
(* as an invalid move: the strikes of every player are what they were.     *)
(***************************************************************************)
C20_ActingAgainNotCharged ==
    ActedAgain => (~last.success /\ strikes = B.strikes)

(***************************************************************************)
(* C21: in both environments the action of a step is rejected if and only  *)
(* if an invalid-move reason was set during the step, and a rejected       *)
(* action sets exactly one: a rejected step reports a reason and charges   *)
(* one invalid move to the acting player and none to anybody else, an      *)
(* accepted step reports no reason and charges nothing.                    *)
(***************************************************************************)
C21_RejectedIffReason ==
    /\ Stepped =>
          /\ ~last.success <=> last.reason # ""
          /\ strikes = [B.strikes EXCEPT ![last.actor] =
                            @ + (IF last.success THEN 0 ELSE 1)]
    /\ VnStepped =>
          /\ ~vn_last.valid <=> vn_last.reason # ""
          /\ vendor.reason = vn_last.reason
          /\ vendor.strikes = [VB.strikes EXCEPT ![vn_last.actor] =
                                   @ + (IF vn_last.valid THEN 0 ELSE 1)]

\* C21 witness: a choice submitted in a talk phase is rejected with the
\* reason of the talk phase
C21_Witness ==
    /\ Stepped /\ ~B.done /\ B.phase = "talk"
    /\ choose_x_pattern(last.action) # 0
    /\ ~last.success
    /\ last.reason =
           "Use [Broadcast] message, [Whisper to X] message, or [Pass]"
    /\ strikes[last.actor] = B.strikes[last.actor] + 1

(***************************************************************************)
(* C22: once a game is done its outcome is fixed.  In both environments a  *)
(* step call made when the game is done, whatever its action, leaves the   *)
(* rewards, the winners, the scores and the recorded history as they were. *)
(***************************************************************************)
C22_OutcomeFrozen ==
    /\ (Stepped /\ B.done) =>
          /\ done
          /\ rewards = B.rewards
          /\ winners = B.winners
          /\ player_scores = B.scores
          /\ Len(round_history) = B.history_len
    /\ (VnStepped /\ VB.done) =>
          /\ vendor.done
          /\ vendor.outcome = VB.outcome
          /\ Len(vendor.negotiation_history) = VB.history_len
          /\ Len(vendor.conversation_history) = VB.talk_len

\* an action whose only command is [Accept], or whose only command is
\* [Reject]
AnswersProposal(action) ==
    CommandKinds(action) \in {{"accept"}, {"reject"}}

(***************************************************************************)
(* C23: in the negotiation, in every reachable state, an [Accept] or       *)
(* [Reject] action is accepted if and only if there is a standing proposal *)
(* and the other player made it; without a standing proposal, or against   *)
(* one's own proposal, the action is rejected as an invalid move and the   *)
(* standing proposal stays what it was.                                    *)
(***************************************************************************)
C23_AnswerNeedsOthersProposal ==
    (VnStepped /\ AnswersProposal(vn_last.action)) =>
        /\ vn_last.valid <=>
              /\ VB.current_proposal.discounts # NoDiscounts
              /\ VB.current_proposal.proposer = 1 - vn_last.actor
        /\ ~vn_last.valid =>
              /\ vn_last.reason # ""
              /\ vendor.strikes[vn_last.actor] = VB.strikes[vn_last.actor] + 1
              /\ vendor.current_proposal = VB.current_proposal

\* C23 witness: a player answers [Accept] to the proposal they made
\* themselves
C23_Witness ==
    /\ VnStepped /\ ~VB.done
    /\ CommandKinds(vn_last.action) = {"accept"}
    /\ VB.current_proposal.discounts # NoDiscounts
    /\ VB.current_proposal.proposer = vn_last.actor
    /\ ~vn_last.valid
    /\ vendor.current_proposal = VB.current_proposal

\* the position of the latest entry of a type in negotiation_history, 0 when
\* there is none
LastOf(type) ==
    LET hits == {i \in 1 .. Len(vendor.negotiation_history) :
                    vendor.negotiation_history[i].type = type}
    IN IF hits = {} THEN 0
       ELSE CHOOSE i \in hits : \A j \in hits : j <= i

\* the results of an accepted deal were announced in the step just taken
DealAnnounced ==
    \E i \in 1 .. Len(vendor.obs) :
        Head(vendor.obs[i].msg) = W("DEAL ACCEPTED")

\* ... and they name these discounts as the agreed ones
AgreedOn(discounts) ==
    \E i \in 1 .. Len(vendor.obs) :
        /\ Head(vendor.obs[i].msg) = W("DEAL ACCEPTED")
        /\ SubSeq(vendor.obs[i].msg, 3, 2 + 4 * num_products)
              = proposal_str(discounts, 1)

(***************************************************************************)
(* C24: a negotiation ends with a deal at exactly the step in which a      *)
(* player's [Accept] of the other player's standing proposal is accepted:  *)
(* that step ends the game with the final results of a deal, and no other  *)
(* step of a game that is not done announces a deal.  The agreed discounts *)
(* are those of the most recent accepted [Propose], which the other player *)
(* made, and no [Reject] has been accepted since that proposal.            *)
(***************************************************************************)
C24_DealAtAccept ==
    (VnStepped /\ ~VB.done) =>
        /\ (vn_last.valid /\ CommandKinds(vn_last.action) = {"accept"})
              <=> (vendor.done /\ DealAnnounced)
        /\ DealAnnounced =>
              /\ LastOf("propose") > LastOf("reject")
              /\ vendor.negotiation_history[LastOf("propose")].player
                    = 1 - vn_last.actor
              /\ AgreedOn(
                    vendor.negotiation_history[LastOf("propose")].discounts)

\* C24 witness: a deal on the second of two different proposals, after the
\* first one was rejected
C24_Witness ==
    /\ VnStepped /\ ~VB.done /\ vendor.done /\ DealAnnounced
    /\ LastOf("reject") > 0
    /\ \E i \in 1 .. LastOf("reject") :
          /\ vendor.negotiation_history[i].type = "propose"
          /\ vendor.negotiation_history[i].discounts
                # vendor.negotiation_history[LastOf("propose")].discounts

EndedWithoutDeal ==
    VnStepped /\ ~VB.done /\ vendor.done /\ ~DealAnnounced

(***************************************************************************)
(* C26: a negotiation in which no deal is accepted ends at the step taken  *)
(* when the turn counter equals max_rounds - 1: the game is never on with  *)
(* a higher count, every step taken at that count ends it, and a game that *)
(* ends without a deal ends at that count, hence no later than with its    *)
(* max_rounds-th accepted action.  It ends as no deal: "NO DEAL" is        *)
(* announced, the result is a draw, and both players' reward is 0.         *)
(***************************************************************************)
C26_NoDealAtMaxRounds ==
    /\ ~vendor.done => vendor.turn <= max_rounds - 1
    /\ (VnStepped /\ ~VB.done /\ VB.turn = max_rounds - 1) => vendor.done
    /\ EndedWithoutDeal =>
          /\ VB.turn = max_rounds - 1
          /\ VB.turn + (IF vn_last.valid THEN 1 ELSE 0) <= max_rounds
          /\ \E i \in 1 .. Len(vendor.obs) :
                Head(vendor.obs[i].msg) = W("NO DEAL REACHED")
          /\ vendor.outcome.kind = "draw"
          /\ vendor.outcome.rewards = [p \in VendorPlayers |-> 0]

\* C26 witness: the max_rounds-th accepted action is free text while a
\* proposal of the other player stands, and the game ends without a deal
C26_Witness ==
    /\ EndedWithoutDeal /\ vn_last.valid
    /\ FreeText(vn_last.action)
    /\ VB.current_proposal.discounts # NoDiscounts
    /\ VB.current_proposal.proposer = 1 - vn_last.actor
    /\ vendor.outcome.rewards[0] = 0 /\ vendor.outcome.rewards[1] = 0

\* the results announced in the step just taken say that the brand did
\* (brand_won) or did not meet its objective, and the vendor likewise
Announced(brand_won, vendor_won) ==
    \E i \in 1 .. Len(vendor.obs) :
        LET msg == vendor.obs[i].msg IN
        /\ Len(msg) >= 4
        /\ SubSeq(msg, Len(msg) - 3, Len(msg))
              = <<W("Brand Specialist:"), Status(brand_won),
                  W("Vendor:"), Status(vendor_won)>>

\* the result of a draw, and of a win of player w
IsDraw == vendor.outcome.kind = "draw" /\ vendor.outcome.winner = None
IsWin(w) ==
    /\ vendor.outcome.kind = "winner" /\ vendor.outcome.winner = w
    /\ vendor.outcome.rewards[w] > vendor.outcome.rewards[1 - w]

(***************************************************************************)
(* C27: at the end of a negotiation the result is a draw when both players *)
(* met their objective, player 0 the winner when only the brand did,       *)
(* player 1 the winner when only the vendor did, and a draw when neither   *)
(* did.  Every step that ends the game announces which of the four cases   *)
(* it is, and a game that ends without a deal is the case of neither.      *)
(***************************************************************************)
C27_ResultByObjectives ==
    /\ (VnStepped /\ Announced(TRUE, TRUE)) =>
          (IsDraw /\ vendor.outcome.reason
                        = "Both players achieved their objectives")
    /\ (VnStepped /\ Announced(TRUE, FALSE)) => IsWin(0)
    /\ (VnStepped /\ Announced(FALSE, TRUE)) => IsWin(1)
    /\ (VnStepped /\ Announced(FALSE, FALSE)) =>
          (IsDraw /\ vendor.outcome.reason
                        = "Neither player achieved their objective")
    /\ (VnStepped /\ ~VB.done /\ vendor.done) =>
          \E b \in BOOLEAN, w \in BOOLEAN : Announced(b, w)
    /\ EndedWithoutDeal => Announced(FALSE, FALSE)
    /\ ~vendor.done => vendor.outcome.kind = "none"

\* C27 witness: a deal with which only the brand met its objective
C27_Witness ==
    /\ VnStepped /\ ~VB.done /\ vendor.done /\ DealAnnounced
    /\ Announced(TRUE, FALSE)
    /\ vendor.outcome.winner = 0
    /\ vendor.outcome.reason = "Brand Specialist achieved sales target"

\* the text an accepted action leaves in conversation_history: the whole
\* trimmed text of free text, the trimmed text before the marker otherwise
Remark(action) ==
    IF CommandKinds(action) = {} THEN strip(action)
    ELSE strip(Part0(strip(action),
                     CHOOSE kind \in CommandKinds(action) : TRUE))

(***************************************************************************)
(* C28: in the negotiation conversation_history grows by exactly one       *)
(* entry, authored by the acting player, for each accepted action that is  *)
(* free text (the entry is the whole trimmed text) or has non-empty text   *)
(* before its [Propose], [Accept] or [Reject] marker (the entry is the     *)
(* trimmed preamble); it does not grow for a rejected action or for an     *)
(* accepted action without a preamble.  The earlier entries stay.          *)
(***************************************************************************)
C28_ConversationHistory ==
    VnStepped =>
        IF /\ vn_last.valid
           /\ CommandKinds(vn_last.action) = {} \/ Remark(vn_last.action) # <<>>
        THEN vendor.conversation_history =
                 Append(VB.conversation_history,
                        [player |-> vn_last.actor,
                         message |-> Remark(vn_last.action),
                         round |-> VB.turn + 1])
        ELSE vendor.conversation_history = VB.conversation_history

\* C28 witness: an accepted [Reject] with a remark before it, which is
\* recorded without the white space around it
C28_Witness ==
    /\ VnStepped /\ vn_last.valid
    /\ CommandKinds(vn_last.action) = {"reject"}
    /\ Part0(vn_last.action, "reject") = <<Sp, W("no"), Sp>>
    /\ Len(vendor.conversation_history) = VB.talk_len + 1
    /\ vendor.conversation_history[VB.talk_len + 1].message = <<W("no")>>

(***************************************************************************)
(* C29: when a game of WinAsMuchAsYouCan has ended, every player whose     *)
(* final score is the maximum, the single winner or each of the tied       *)
(* co-winners, has reward 100.                                             *)
(***************************************************************************)
C29_WinnersRewarded100 ==
    done =>
        \A p \in Players :
            (\A q \in Players : player_scores[q] <= player_scores[p])
                => rewards[p] = 100

(***************************************************************************)
(* C30: in WinAsMuchAsYouCan the transcript grows with every step by one   *)
(* message if the action of the step was accepted and by none if it was    *)
(* rejected, plus exactly one system message if the step made a phase or   *)
(* round transition; summed over the steps of a game, the transcript holds *)
(* as many messages as accepted step calls plus transitions.               *)
(***************************************************************************)
\* the add_observation calls behind a list of observations: a call to
\* everybody (to_id = -1) is one message that reaches the num_players players
Messages(obs) ==
    LET ToAll(i) ==
            /\ obs[i].to = 0
            /\ i + num_players - 1 <= Len(obs)
            /\ \A k \in 1 .. num_players - 1 :
                   obs[i + k] = [obs[i] EXCEPT !.to = k]
    IN  Len(obs)
            - (num_players - 1) * Cardinality({i \in 1 .. Len(obs) : ToAll(i)})

\* the phase or round transitions of the last step, the end of the last
\* round included
Transitions ==
    IF \/ current_phase # B.phase
       \/ current_round # B.round
       \/ (done /\ ~B.done)
    THEN 1 ELSE 0

C30_TranscriptCount ==
    Stepped =>
        Messages(step_obs) = (IF last.success THEN 1 ELSE 0) + Transitions

(***************************************************************************)
(* C31: every phase of WinAsMuchAsYouCan begins with player 0: after the   *)
(* step that completes a phase (talk to act, act to talk of the next       *)
(* round, act to act of the next round) while the game goes on,            *)
(* current_player_id is 0, that step's turn advance included.              *)
(***************************************************************************)
PhaseBegun ==
    /\ Stepped
    /\ last.success
    /\ ~done
    /\ (current_phase # B.phase \/ current_round # B.round)

C31_PhaseBeginsWithPlayer0 == PhaseBegun => current_player_id = 0

C31_Witness ==
    /\ PhaseBegun
    /\ B.phase = "act"
    /\ current_phase = "act"
    /\ current_round = B.round + 1
    /\ last.actor = 3
    /\ current_player_id = 0

(***************************************************************************)
(* C32: when a game of WinAsMuchAsYouCan has ended, the designated winners *)
(* are exactly the players with the maximum final score; if that maximum   *)
(* is greater than 0 every winner has reward 1 and every other player -1,  *)
(* and if it is 0 or negative every player has reward 0.                   *)
(***************************************************************************)
MaxScore == Max({player_scores[q] : q \in Players})
TopScorers == {p \in Players : player_scores[p] = MaxScore}
Designated == {winners[i] : i \in 1 .. Len(winners)}

AcceptedChoices ==
    4 * Len(round_history)
        + (IF current_phase = "act" /\ ~done /\ ~PhaseBegun
           THEN Cardinality(Chosen) ELSE 0)
AcceptedChoicesBefore ==
    4 * B.history_len
        + (IF B.phase = "act" THEN Cardinality(DOMAIN B.choices) ELSE 0)

C33_Counts ==
    /\ ~Stepped => AcceptedChoices = 0
    /\ (Stepped /\ ~B.done) =>
          AcceptedChoices = AcceptedChoicesBefore
              + (IF last.success /\ B.phase = "act" THEN 1 ELSE 0)
    /\ done => AcceptedChoices = 4 * final_round
    /\ (Stepped /\ B.phase = "talk") =>
          talk_round = B.talk_round + (IF last.success THEN 1 ELSE 0)
    /\ (Stepped /\ B.phase = "act" /\ current_phase = "talk") =>
          talk_round = 0
    /\ (Stepped /\ B.phase = "talk" /\ current_phase = "act") =>
          (talk_round >= 4 /\ talk_round <= max_talk_rounds)

\* some command of the current player would be accepted
CanAct == \E a \in Commands : Offered(a) /\ step(State, a)[1]

C33_CompleteGame == (<>done) /\ [](done \/ CanAct) /\ []C33_Counts

C33_Witness ==
    /\ done
    /\ AcceptedChoices = 40
    /\ Len(round_history) = final_round

(***************************************************************************)
(* C34: while a game of WinAsMuchAsYouCan is not done, round_history has   *)
(* exactly current_round - 1 entries; its i-th entry is for round i and    *)
(* records exactly four choices, one of every player, with                 *)
(* x_count + y_count = 4; when the game is done it has exactly 10 entries. *)
(***************************************************************************)
FourChoices(entry) ==
    /\ DOMAIN entry.choices = Players
    /\ \A p \in Players : entry.choices[p] \in {"X", "Y"}
    /\ entry.x_count = Cardinality({p \in Players : entry.choices[p] = "X"})
    /\ entry.y_count = Cardinality({p \in Players : entry.choices[p] = "Y"})
    /\ entry.x_count + entry.y_count = 4

C34_RoundHistory ==
    /\ ~done => Len(round_history) = current_round - 1
    /\ done => Len(round_history) = 10
    /\ \A i \in 1 .. Len(round_history) :
          /\ round_history[i].round = i
          /\ FourChoices(round_history[i])

C34_Witness ==
    /\ ~done
    /\ current_round = 10
    /\ Len(round_history) = 9
    /\ round_history[9].round = 9
    /\ FourChoices(round_history[9])

(***************************************************************************)
(* C35: after any sequence of steps every player's player_scores value is  *)
(* the sum of the points recorded for that player in the entries of        *)
(* round_history, and a step changes the scores only if it scores a round. *)
(***************************************************************************)
RECURSIVE RecordedPoints(_, _)
RecordedPoints(p, n) ==
    IF n = 0 THEN 0
    ELSE RecordedPoints(p, n - 1) + round_history[n].results[p].points

C35_ScoresAreRecordedPoints ==
    /\ \A p \in Players :
          player_scores[p] = RecordedPoints(p, Len(round_history))
    /\ (Stepped /\ player_scores # B.scores) =>
          Len(round_history) = B.history_len + 1

C35_Witness ==
    /\ Len(round_history) = 6
    /\ player_scores # [p \in Players |-> 0]
    /\ \A p \in Players :
          player_scores[p] = RecordedPoints(p, Len(round_history))
    /\ Stepped /\ player_scores # B.scores

(***************************************************************************)
(* C36: until a round is scored no player other than the chooser receives  *)
(* an observation that reveals whether a recorded choice of the round is X *)
(* or Y: of the step that records a choice without completing the round,   *)
(* the other players receive only observations that name neither letter.   *)
(***************************************************************************)
\* the message names a choice: a [Choose X] or [Choose Y] command or the letter
Reveals(msg) ==
    \E i \in 1 .. Len(msg) :
        \/ msg[i].k \in {"chooseX", "chooseY"}
        \/ msg[i] \in {W("X"), W("Y")}

ChoiceRecorded ==
    /\ Stepped
    /\ last.success
    /\ B.phase = "act"
    /\ Len(round_history) = B.history_len

C36_ChoiceHidden ==
    ChoiceRecorded =>
        \A i \in 1 .. Len(step_obs) :
            step_obs[i].to # last.actor => ~Reveals(step_obs[i].msg)

(***************************************************************************)
(* C37: in a talk phase the raw text of a rejected whisper attempt, be its *)
(* target the sender, out of range, negative or not a number, or its body  *)
(* empty, is shown to its sender only and never to another player.         *)
(***************************************************************************)
\* the action holds a [Whisper to ...] command, whatever its target
WhisperAttempt(action) ==
    \E i \in 1 .. Len(action) : action[i].k = "whisper"

RejectedWhisper ==
    /\ Stepped
    /\ B.phase = "talk"
    /\ ~last.success
    /\ WhisperAttempt(last.action)

C37_RejectedWhisperPrivate ==
    RejectedWhisper =>
        \A i \in 1 .. Len(step_obs) :
            step_obs[i].msg = last.action => step_obs[i].to = last.actor

(***************************************************************************)
(* C38: after any sequence of steps of a negotiation the proposal kept in  *)
(* state.game_state equals the environment's own current_proposal; the two *)
(* copies never diverge.  The game_state entries of the two histories are  *)
(* the environment's own list objects (reset stores the lists themselves   *)
(* and every later assignment stores the same list again), so each history *)
(* is one value here and only the proposal has a second copy.              *)
(***************************************************************************)
C38_GameStateAgrees ==
    vendor.gs_current_proposal = vendor.current_proposal

(***************************************************************************)
(* C39: for a finished negotiation with an accepted deal, the WON/LOST     *)
(* outcome of the brand and of the vendor that get_board_str reports is    *)
(* the same on every call and is the outcome the rewards were assigned     *)
(* for when the game ended.                                                *)
(***************************************************************************)
\* the game ended with an accepted deal and no step was made since
FinishedWithDeal ==
    /\ VnStepped
    /\ ~VB.done
    /\ vendor.done
    /\ _check_deal_accepted(vendor)

\* the outcome _set_final_rewards was called with when the game ended
RewardedOutcome ==
    CHOOSE sim \in Sims :
        _set_final_rewards(vendor, sim.brand_won, sim.vendor_won).outcome
            = vendor.outcome

\* the board ends with this outcome of the brand and of the vendor
BoardReports(board, sim) ==
    /\ Len(board) >= 4
    /\ SubSeq(board, Len(board) - 3, Len(board))
           = <<W("Brand Specialist:"), Status(sim.brand_won),
               W("Vendor:"), Status(sim.vendor_won)>>

C39_BoardOutcomeStable ==
    FinishedWithDeal =>
        \A i \in 1 .. Len(board_strs) :
            /\ BoardReports(board_strs[i], RewardedOutcome)
            /\ board_strs[i] = board_strs[1]
====
